---- MODULE Spec2Model ----
(***************************************************************************)
(* Editing-session core of the photo background editor:                    *)
(*   - editorReducer and the handlers of PhotoBackgroundEditorContent      *)
(*     (upload, removal, background selection, reset, retry, dismissal,    *)
(*     unmount), with every asynchronous handler split at its awaits;      *)
(*   - processBackgroundRemoval, the retrying client of the                *)
(*     /api/remove-background endpoint, with its synthesized progress,     *)
(*     called by processRemoveBackground (Spec) or directly with options   *)
(*     drawn from bounded sets (SpecClient, SpecBackoff);                  *)
(*   - the 300 ms timeouts of ErrorNotification, the transform handlers    *)
(*     and DownloadButton.handleDownload;                                  *)
(*   - CanvasEditor: its effects, the fabric object events, the keyboard   *)
(*     handler and the animation frames it requests, with composeImage     *)
(*     and getDefaultTransform (SpecCanvas, SpecTransform);                *)
(*   - the POST handler of /api/remove-background and its temporary        *)
(*     files (SpecServer).                                                 *)
(* A blob URL is named after the operation that created it; an             *)
(* HTMLImageElement is identified with the blob URL held in its src.       *)
(***************************************************************************)
EXTENDS Integers, Sequences, FiniteSets, TLC

(* ------------------------------ bounds -------------------------------- *)
MaxUploads == 2          \* calls of handleImageUpload
MaxRemovals == 2         \* calls of processRemoveBackground that reach the client
MaxBgLoads == 1          \* calls of handleImageSelect
MaxTicksSession == 1     \* interval firings per attempt, session specification
MaxTicksClient == 6      \* interval firings per attempt, client specification
MaxRetriesBound == 3     \* largest maxRetries option tried on the client
TickGrain == 7           \* spacing of the sampled values of Math.random() * 15
MaxTimers == 2           \* pending ErrorNotification timeouts
MaxBackoffRetries == 6   \* largest maxRetries option tried on the backoff schedule
MaxTicksBackoff == 1     \* interval firings per attempt, backoff specification

(* ------------------------- program constants -------------------------- *)
DefaultMaxRetries == 2   \* processRemoveBackground passes maxRetries: 2
RandomScale == 15        \* Math.random() * 15
ProgressCap == 85        \* periodic ticks stay below 85
BaseDelay == 1000        \* 1000 * 2^(attempt - 1)
MaxDelay == 5000         \* Math.min(..., 5000)

NoUrl == 0               \* null image / no URL
NoFile == 0              \* null File
NoBlob == 0              \* null Blob
NoColor == 0             \* null background color
NoError == "null"        \* state.error = null
NoOperation == -1        \* lastFailedOperationRef.current = null

VARIABLES
  state,                   \* EditorState held by useReducer
  mounted,                 \* PhotoBackgroundEditorContent is mounted
  showConfirmDialog,       \* useState(false)
  lastFailedOperationRef,  \* the processRemoveBackground closure kept for retry,
                           \* identified by the sourceFile it captured
  blobUrlsRef,             \* Set<string> of tracked blob URLs
  urls,                    \* every URL.createObjectURL result, with its revoke count
  uploads,                 \* one entry per handleImageUpload call
  requests,                \* one entry per processBackgroundRemoval call
  bgLoads,                 \* one entry per handleImageSelect call
  supportCheck,            \* the checkSupport effect: "pending" or "done"
  harness,                 \* what a direct caller of processBackgroundRemoval
                           \* observes: its onProgress values and the failures
                           \* its transport injected
  budget,                  \* how many uploads, removals, background loads and
                           \* unmounts the explored session may still contain
  timers,                  \* the pending setTimeout(..., 300) callbacks of
                           \* ErrorNotification, in the order they will fire
  editor,                  \* CanvasEditor: its fabric canvas, its state and
                           \* refs, and the animation frames it requested
  server                   \* the /api/remove-background route: its clock, the
                           \* temporary directory and the requests it handles

vars == <<state, mounted, showConfirmDialog, lastFailedOperationRef, blobUrlsRef,
          urls, uploads, requests, bgLoads, supportCheck, harness, budget,
          timers, editor, server>>

(* ------------------------------ numbers ------------------------------- *)
\* The numbers of a Transform (x, y, scale, rotation) are JavaScript numbers
\* that take fractional values (a scale of 0.2, a canvas centre of 187.5):
\* they are kept as exact fractions num / den in lowest terms, den > 0.
Abs(n) == IF n < 0 THEN -n ELSE n

RECURSIVE GCD(_, _)
GCD(a, b) == IF b = 0 THEN a ELSE GCD(b, a % b)

Rat(n, d) ==
  LET g == GCD(Abs(n), Abs(d))
      sgn == IF d < 0 THEN -1 ELSE 1
  IN [num |-> sgn * (n \div g), den |-> sgn * (d \div g)]

Num(n) == Rat(n, 1)
RatMul(a, b) == Rat(a.num * b.num, a.den * b.den)
RatAdd(a, b) == Rat(a.num * b.den + b.num * a.den, a.den * b.den)
RatLeq(a, b) == a.num * b.den <= b.num * a.den
RatMin(a, b) == IF RatLeq(a, b) THEN a ELSE b

(* --------------------------- initialState ----------------------------- *)
initialState ==
  [ sourceImage |-> NoUrl,
    sourceFile |-> NoFile,
    processedImage |-> NoUrl,
    processedBlob |-> NoBlob,
    backgroundColor |-> NoColor,
    backgroundImage |-> NoUrl,
    transform |-> [x |-> Num(0), y |-> Num(0), scale |-> Num(1),
                   rotation |-> Num(0)],
    isProcessing |-> FALSE,
    processingProgress |-> 0,
    error |-> NoError ]

\* The File passed to handleImageUpload by upload k, and the File built from
\* its resized blob (new File([resizedBlob], ...)) are different objects.
OriginalFile(k) == 2 * k - 1
ResizedFile(k) == 2 * k
UploadOfFile(f) == (f + 1) \div 2

Max(a, b) == IF a >= b THEN a ELSE b
Min(a, b) == IF a <= b THEN a ELSE b

(* ------------------------- blob URL registry -------------------------- *)
\* The URL returned by URL.createObjectURL for the file of upload k, for its
\* resized blob, for the result of request r and for background load b.
SourceUrl(k) == k
ResizedUrl(k) == 10 + k
ProcessedUrl(r) == 20 + r
BackgroundUrl(b) == 30 + b

\* URL.createObjectURL: u becomes a live URL. gen is the generation (upload
\* count) under which the operation that owns u was started, createdAt the
\* generation at the createObjectURL call.
createObjectURL(us, u, gen, now) ==
  us @@ (u :> [gen |-> gen, createdAt |-> now, revoked |-> 0])

\* URL.revokeObjectURL(u), counted per URL.
revokeObjectURL(us, u) ==
  [i \in DOMAIN us |-> IF i = u THEN [us[i] EXCEPT !.revoked = @ + 1] ELSE us[i]]

\* revokeBlobUrl(image): every image of the model has a blob: src.
revokeBlobUrl(us, image) ==
  IF image # NoUrl THEN revokeObjectURL(us, image) ELSE us

\* revokeBlobUrlTracked(url): revoke only when tracked ...
revokeBlobUrlTracked(us, tracked, u) ==
  IF u \in tracked THEN revokeObjectURL(us, u) ELSE us

\* ... and blobUrlsRef.current.delete(url)
untrack(tracked, u) == tracked \ {u}

\* trackBlobUrl(url)
trackBlobUrl(tracked, u) == tracked \cup {u}

\* Faulty variant of editorReducer: SET_BACKGROUND_IMAGE keeps the color.
editorReducerKeepsColor(s, a) ==
  CASE a.type = "SET_SOURCE_IMAGE" ->
         [s EXCEPT !.sourceImage = a.image, !.sourceFile = a.file, !.error = NoError]
    [] a.type = "SET_PROCESSED_IMAGE" ->
         [s EXCEPT !.processedImage = a.image, !.processedBlob = a.blob,
                   !.isProcessing = FALSE, !.processingProgress = 0,
                   !.error = NoError]
    [] a.type = "SET_BACKGROUND_COLOR" ->
         [s EXCEPT !.backgroundColor = a.payload, !.backgroundImage = NoUrl]
    [] a.type = "SET_BACKGROUND_IMAGE" ->
         [s EXCEPT !.backgroundImage = a.payload]
    [] a.type = "UPDATE_TRANSFORM" ->
         [s EXCEPT !.transform =
            [f \in DOMAIN s.transform |->
               IF f \in DOMAIN a.payload THEN a.payload[f] ELSE s.transform[f]]]
    [] a.type = "SET_PROCESSING" ->
         [s EXCEPT !.isProcessing = a.payload,
                   !.error = IF a.payload THEN NoError ELSE s.error]
    [] a.type = "SET_PROGRESS" ->
         [s EXCEPT !.processingProgress = a.payload]
    [] a.type = "SET_ERROR" ->
         [s EXCEPT !.error = a.payload, !.isProcessing = FALSE,
                   !.processingProgress = 0]
    [] a.type = "RESET" ->
         [initialState EXCEPT !.sourceImage = s.sourceImage,
                              !.sourceFile = s.sourceFile]
    [] OTHER -> s

\* Faulty variant of editorReducer: SET_PROCESSING keeps the error.
editorReducerKeepsError(s, a) ==
  CASE a.type = "SET_SOURCE_IMAGE" ->
         [s EXCEPT !.sourceImage = a.image, !.sourceFile = a.file, !.error = NoError]
    [] a.type = "SET_PROCESSED_IMAGE" ->
         [s EXCEPT !.processedImage = a.image, !.processedBlob = a.blob,
                   !.isProcessing = FALSE, !.processingProgress = 0,
                   !.error = NoError]
    [] a.type = "SET_BACKGROUND_COLOR" ->
         [s EXCEPT !.backgroundColor = a.payload, !.backgroundImage = NoUrl]
    [] a.type = "SET_BACKGROUND_IMAGE" ->
         [s EXCEPT !.backgroundImage = a.payload, !.backgroundColor = NoColor]
    [] a.type = "UPDATE_TRANSFORM" ->
         [s EXCEPT !.transform =
            [f \in DOMAIN s.transform |->
               IF f \in DOMAIN a.payload THEN a.payload[f] ELSE s.transform[f]]]
    [] a.type = "SET_PROCESSING" ->
         [s EXCEPT !.isProcessing = a.payload]
    [] a.type = "SET_PROGRESS" ->
         [s EXCEPT !.processingProgress = a.payload]
    [] a.type = "SET_ERROR" ->
         [s EXCEPT !.error = a.payload, !.isProcessing = FALSE,
                   !.processingProgress = 0]
    [] a.type = "RESET" ->
         [initialState EXCEPT !.sourceImage = s.sourceImage,
                              !.sourceFile = s.sourceFile]
    [] OTHER -> s

(* ----------------------------- reducer -------------------------------- *)
\* The EditorState returned by editorReducer(s, a).
editorReducer(s, a) ==
  CASE a.type = "SET_SOURCE_IMAGE" ->
         [s EXCEPT !.sourceImage = a.image, !.sourceFile = a.file, !.error = NoError]
    [] a.type = "SET_PROCESSED_IMAGE" ->
         [s EXCEPT !.processedImage = a.image, !.processedBlob = a.blob,
                   !.isProcessing = FALSE, !.processingProgress = 0,
                   !.error = NoError]
    [] a.type = "SET_BACKGROUND_COLOR" ->
         [s EXCEPT !.backgroundColor = a.payload, !.backgroundImage = NoUrl]
    [] a.type = "SET_BACKGROUND_IMAGE" ->
         [s EXCEPT !.backgroundImage = a.payload, !.backgroundColor = NoColor]
    [] a.type = "UPDATE_TRANSFORM" ->
         [s EXCEPT !.transform =
            [f \in DOMAIN s.transform |->
               IF f \in DOMAIN a.payload THEN a.payload[f] ELSE s.transform[f]]]
    [] a.type = "SET_PROCESSING" ->
         [s EXCEPT !.isProcessing = a.payload,
                   !.error = IF a.payload THEN NoError ELSE s.error]
    [] a.type = "SET_PROGRESS" ->
         [s EXCEPT !.processingProgress = a.payload]
    [] a.type = "SET_ERROR" ->
         [s EXCEPT !.error = a.payload, !.isProcessing = FALSE,
                   !.processingProgress = 0]
    [] a.type = "RESET" ->
         [initialState EXCEPT !.sourceImage = s.sourceImage,
                              !.sourceFile = s.sourceFile]
    [] OTHER -> s

\* Faulty variant of reducerRevokes: RESET leaves the background image alone.
reducerRevokesResetLeaks(us, s, a) ==
  CASE a.type = "SET_SOURCE_IMAGE" -> revokeBlobUrl(us, s.sourceImage)
    [] a.type = "SET_PROCESSED_IMAGE" -> revokeBlobUrl(us, s.processedImage)
    [] a.type = "SET_BACKGROUND_COLOR" -> revokeBlobUrl(us, s.backgroundImage)
    [] a.type = "SET_BACKGROUND_IMAGE" -> revokeBlobUrl(us, s.backgroundImage)
    [] a.type = "RESET" -> revokeBlobUrl(us, s.processedImage)
    [] OTHER -> us

\* Faulty variant of reducerRevokes: RESET also revokes the source image.
reducerRevokesResetAll(us, s, a) ==
  CASE a.type = "SET_SOURCE_IMAGE" -> revokeBlobUrl(us, s.sourceImage)
    [] a.type = "SET_PROCESSED_IMAGE" -> revokeBlobUrl(us, s.processedImage)
    [] a.type = "SET_BACKGROUND_COLOR" -> revokeBlobUrl(us, s.backgroundImage)
    [] a.type = "SET_BACKGROUND_IMAGE" -> revokeBlobUrl(us, s.backgroundImage)
    [] a.type = "RESET" ->
         revokeBlobUrl(revokeBlobUrl(revokeBlobUrl(us, s.sourceImage),
                                     s.processedImage), s.backgroundImage)
    [] OTHER -> us

\* The URL registry after the revokeBlobUrl calls editorReducer(s, a) makes.
reducerRevokes(us, s, a) ==
  CASE a.type = "SET_SOURCE_IMAGE" -> revokeBlobUrl(us, s.sourceImage)
    [] a.type = "SET_PROCESSED_IMAGE" -> revokeBlobUrl(us, s.processedImage)
    [] a.type = "SET_BACKGROUND_COLOR" -> revokeBlobUrl(us, s.backgroundImage)
    [] a.type = "SET_BACKGROUND_IMAGE" -> revokeBlobUrl(us, s.backgroundImage)
    [] a.type = "RESET" ->
         revokeBlobUrl(revokeBlobUrl(us, s.processedImage), s.backgroundImage)
    [] OTHER -> us

\* dispatch(a): the reducer runs only while the component is mounted.
dispatch(s, a) == IF mounted THEN editorReducer(s, a) ELSE s
dispatchRevokes(us, s, a) == IF mounted THEN reducerRevokes(us, s, a) ELSE us

SetError(msg) == [type |-> "SET_ERROR", payload |-> msg]
SetProgress(p) == [type |-> "SET_PROGRESS", payload |-> p]

generation == Len(uploads)   \* number of handleImageUpload calls so far

\* Retries the pending timeouts will start.
pendingRetries == Len(SelectSeq(timers, LAMBDA t : t = "retry"))

(* ------------------- processBackgroundRemoval (client) ---------------- *)
NoCause == [kind |-> "undefined", attempt |-> 0]        \* let lastError;
NoRejection == [name |-> "none", originalError |-> NoCause, retryable |-> FALSE]

\* new BackgroundRemovalError(message, originalError, retryable)
BackgroundRemovalError(originalError, retryable) ==
  [name |-> "BackgroundRemovalError", originalError |-> originalError,
   retryable |-> retryable]

RECURSIVE Pow2(_)
Pow2(n) == IF n <= 0 THEN 1 ELSE 2 * Pow2(n - 1)

\* Faulty variant of backoffDelay: the delay is not capped.
backoffDelayUncapped(attempt) == BaseDelay * Pow2(attempt - 1)

\* Math.min(1000 * Math.pow(2, attempt - 1), 5000)
backoffDelay(attempt) == Min(BaseDelay * Pow2(attempt - 1), MaxDelay)

\* Sampled values of Math.random() * 15, a real in [0, 15).
TickIncrements == {i \in 0..(RandomScale - 1) : i % TickGrain = 0}

\* A call of processBackgroundRemoval(file, {onProgress, maxRetries}) by caller
\* "session" (processRemoveBackground) or "harness" (a direct call); pc is the
\* await the call, or its caller, is suspended at.
NewRequest(caller, file, gen, maxRetries, tickBudget, pc) ==
  [ pc |-> pc, caller |-> caller, file |-> file, gen |-> gen,
    maxRetries |-> maxRetries, tickBudget |-> tickBudget,
    attempt |-> 0, currentProgress |-> 0, ticks |-> 0,
    interval |-> FALSE,           \* progressInterval is set and not cleared
    lastError |-> NoCause,
    emitted |-> <<>>,             \* values the running step passed to onProgress
    calls |-> 0,                  \* fetch calls made
    delays |-> <<>>,              \* backoff delays waited, in order
    result |-> "pending", rejection |-> NoRejection, blobSize |-> 0,
    url |-> NoUrl ]

\* Loop head and the synchronous start of an attempt, up to the await on fetch:
\* attempt++, onProgress(5), onProgress(15), setInterval, fetch.
startAttempt(q) ==
  [q EXCEPT !.pc = "fetch", !.attempt = @ + 1, !.currentProgress = 15,
            !.ticks = 0, !.interval = TRUE, !.emitted = <<5, 15>>,
            !.calls = @ + 1]

\* After the loop: throw new BackgroundRemovalError(..., lastError, true).
rejectExhausted(q) ==
  [q EXCEPT !.pc = "settled", !.result = "rejected",
            !.rejection = BackgroundRemovalError(q.lastError, TRUE)]

\* while (attempt < maxRetries) { ... }
loopHead(q) ==
  IF q.attempt < q.maxRetries THEN startAttempt(q) ELSE rejectExhausted(q)

\* Faulty variant of attemptFailed: the break test reads attempt > maxRetries,
\* so a wait also follows the last attempt.
attemptFailedWaitsAfterLast(q, kind) ==
  LET q1 == [q EXCEPT !.interval = FALSE,
                      !.lastError = [kind |-> kind, attempt |-> q.attempt]]
  IN IF q1.attempt > q1.maxRetries
       THEN rejectExhausted(q1)
       ELSE [q1 EXCEPT !.pc = "backoff",
                       !.delays = Append(@, backoffDelay(q1.attempt))]

\* Faulty variant of attemptFailed: lastError keeps the first cause.
attemptFailedKeepsFirstCause(q, kind) ==
  LET q1 == [q EXCEPT !.interval = FALSE,
                      !.lastError = IF @ = NoCause
                                      THEN [kind |-> kind, attempt |-> q.attempt]
                                      ELSE @]
  IN IF q1.attempt >= q1.maxRetries
       THEN rejectExhausted(q1)
       ELSE [q1 EXCEPT !.pc = "backoff",
                       !.delays = Append(@, backoffDelay(q1.attempt))]

\* The inner catch (clearInterval, rethrow) and the outer catch: lastError =
\* error; break on the last attempt, else back off.
attemptFailed(q, kind) ==
  LET q1 == [q EXCEPT !.interval = FALSE,
                      !.lastError = [kind |-> kind, attempt |-> q.attempt]]
  IN IF q1.attempt >= q1.maxRetries
       THEN rejectExhausted(q1)
       ELSE [q1 EXCEPT !.pc = "backoff",
                       !.delays = Append(@, backoffDelay(q1.attempt))]

\* progressUpdater: one firing of the 500 ms interval.
progressUpdater(q, inc) ==
  LET cp == q.currentProgress + inc
  IN [q EXCEPT !.currentProgress = cp, !.ticks = @ + 1,
               !.emitted = IF cp < ProgressCap
                             THEN <<Min(cp, ProgressCap)>> ELSE <<>>]

\* Faulty variant of responseOk: the interval is not cleared.
responseOkKeepsInterval(q) ==
  [q EXCEPT !.pc = "blob", !.emitted = <<90>>]

\* fetch resolved with response.ok: clearInterval, onProgress(90), await blob().
responseOk(q) ==
  [q EXCEPT !.pc = "blob", !.interval = FALSE, !.emitted = <<90>>]

\* fetch resolved with !response.ok: clearInterval, await response.json().
responseNotOk(q) ==
  [q EXCEPT !.pc = "json", !.interval = FALSE]

\* Faulty variant of blobReceived: the size of the blob is not checked.
blobReceivedUnchecked(q, size) ==
  [q EXCEPT !.pc = "settled", !.result = "resolved", !.blobSize = size,
            !.emitted = <<100>>]

\* response.blob() resolved: an empty blob throws, else onProgress(100), return.
blobReceived(q, size) ==
  IF size = 0 THEN attemptFailed(q, "empty")
  ELSE [q EXCEPT !.pc = "settled", !.result = "resolved", !.blobSize = size,
                 !.emitted = <<100>>]

\* The frame of a settled call is gone: only its outcome remains.
settled(q) ==
  [q EXCEPT !.pc = "done", !.attempt = 0, !.currentProgress = 0, !.ticks = 0,
            !.lastError = NoCause, !.emitted = <<>>]

\* User-facing message processRemoveBackground derives from the rejection.
removalErrorMessage(rejection) ==
  IF rejection.name = "BackgroundRemovalError"
    THEN "Failed to remove background after attempts"
    ELSE "Failed to remove background. Please try again."

\* onProgress of processRemoveBackground: dispatch SET_PROGRESS for each value.
RECURSIVE onProgressAll(_, _)
onProgressAll(s, ps) ==
  IF ps = <<>> THEN s
  ELSE onProgressAll(dispatch(s, SetProgress(Head(ps))), Tail(ps))

\* The harness after a step of its call: the onProgress values of the current
\* attempt, and the cause of every failed attempt so far.
NoDownload == [bytes |-> [blob |-> NoBlob], format |-> "none"]
NoHarness == [progress |-> <<>>, failures |-> <<>>, delivered |-> NoDownload]
observe(h, q, q2, cause) ==
  [ progress |-> IF q2.attempt # q.attempt /\ q2.pc = "fetch"
                   THEN q2.emitted ELSE h.progress \o q2.emitted,
    failures |-> IF cause = "none" THEN h.failures
                 ELSE Append(h.failures, [kind |-> cause, attempt |-> q.attempt]),
    delivered |-> h.delivered ]

(* ------------------ the /api/remove-background route ------------------ *)
MaxPosts == 2            \* POST requests handled
MaxClock == 2            \* milliseconds Date.now() advances

NoPath == <<"none", 0>>
NoContent == [kind |-> "none", of |-> 0]

\* join(tmpdir(), `input-${now}.png`) and join(tmpdir(), `output-${now}.png`).
inputPathAt(now) == <<"input", now>>
outputPathAt(now) == <<"output", now>>

\* The temporary directory is a set of files [path, content].
exists(fs, path) == \E f \in fs : f.path = path
contentOf(fs, path) == (CHOOSE f \in fs : f.path = path).content
writeFile(fs, path, content) ==
  {f \in fs : f.path # path} \cup {[path |-> path, content |-> content]}
unlink(fs, path) == {f \in fs : f.path # path}

\* The server before any request: Date.now() is counted from its start.
NoServer == [clock |-> 0, fs |-> {}, handlers |-> <<>>]

Handlers == DOMAIN server.handlers

\* Every step of the route leaves the editing session alone.
sessionUnchanged ==
  UNCHANGED <<state, mounted, showConfirmDialog, lastFailedOperationRef,
              blobUrlsRef, urls, uploads, requests, bgLoads, supportCheck,
              harness, budget, timers, editor>>

\* Date.now() advances by a millisecond.
clockTick ==
  /\ server.clock < MaxClock
  /\ server' = [server EXCEPT !.clock = @ + 1]
  /\ sessionUnchanged

\* POST is called with a form that holds an image (hasFile) or none, and
\* awaits request.formData(). The image of request i is image i.
POST(hasFile) ==
  /\ Len(server.handlers) < MaxPosts
  /\ server' = [server EXCEPT !.handlers =
                  Append(@, [ pc |-> "formData",
                              file |-> IF hasFile
                                         THEN [kind |-> "image", of |-> Len(@) + 1]
                                       ELSE NoContent,
                              inputPath |-> NoPath,
                              outputPath |-> NoPath,
                              opened |-> NoContent,
                              exitCode |-> 0,
                              resultBuffer |-> NoContent,
                              status |-> 0 ])]
  /\ sessionUnchanged

\* request.formData() resolved: 400 without a file, else await arrayBuffer().
formDataResolved(i) ==
  /\ server.handlers[i].pc = "formData"
  /\ server' = IF server.handlers[i].file = NoContent
                 THEN [server EXCEPT !.handlers[i].pc = "done",
                                     !.handlers[i].status = 400]
               ELSE [server EXCEPT !.handlers[i].pc = "arrayBuffer"]
  /\ sessionUnchanged

\* file.arrayBuffer() resolved: both paths are named after Date.now() (the
\* clock may advance between the two calls), the input is written and the
\* python command is started.
arrayBufferResolved(i, later) ==
  /\ server.handlers[i].pc = "arrayBuffer"
  /\ later \in {server.clock, server.clock + 1}
  /\ later <= MaxClock
  /\ LET inputPath == inputPathAt(server.clock)
         outputPath == outputPathAt(later)
     IN server' = [server EXCEPT
                     !.clock = later,
                     !.fs = writeFile(@, inputPath, server.handlers[i].file),
                     !.handlers[i].inputPath = inputPath,
                     !.handlers[i].outputPath = outputPath,
                     !.handlers[i].pc = "exec"]
  /\ sessionUnchanged

\* The python process: Image.open(input_path) reads the input file; a missing
\* file prints the error and exits with 1.
pythonOpens(i) ==
  /\ server.handlers[i].pc = "exec"
  /\ LET h == server.handlers[i]
     IN server' = IF exists(server.fs, h.inputPath)
                    THEN [server EXCEPT
                            !.handlers[i].opened = contentOf(server.fs, h.inputPath),
                            !.handlers[i].pc = "python"]
                  ELSE [server EXCEPT !.handlers[i].exitCode = 1,
                                      !.handlers[i].pc = "exited"]
  /\ sessionUnchanged

\* The python process: remove(input_image) and output_image.save(output_path).
pythonSaves(i) ==
  /\ server.handlers[i].pc = "python"
  /\ LET h == server.handlers[i]
     IN server' = [server EXCEPT
                     !.fs = writeFile(@, h.outputPath,
                                      [kind |-> "cutout", of |-> h.opened.of]),
                     !.handlers[i].pc = "exited"]
  /\ sessionUnchanged

\* The catch of the inner try: both unlinkSync calls, each in its own try, and
\* the rethrow that the outer catch answers with status 500.
cleanUpOnError(srv, i) ==
  [srv EXCEPT !.fs = unlink(unlink(@, srv.handlers[i].inputPath),
                            srv.handlers[i].outputPath),
              !.handlers[i].pc = "done",
              !.handlers[i].status = 500]

\* execPromise settled. Resolved (exit code 0): readFileSync(outputPath),
\* unlinkSync(inputPath), unlinkSync(outputPath), status 200; a missing file
\* makes the call throw. Rejected (exit code 1), or a throw: the catch.
execSettled(i) ==
  /\ server.handlers[i].pc = "exited"
  /\ LET h == server.handlers[i]
     IN server' =
          IF h.exitCode # 0 THEN cleanUpOnError(server, i)
          ELSE IF ~exists(server.fs, h.outputPath) THEN cleanUpOnError(server, i)
          ELSE IF ~exists(server.fs, h.inputPath) THEN cleanUpOnError(server, i)
          ELSE [server EXCEPT
                  !.fs = unlink(unlink(@, h.inputPath), h.outputPath),
                  !.handlers[i].resultBuffer = contentOf(server.fs, h.outputPath),
                  !.handlers[i].pc = "done",
                  !.handlers[i].status = 200]
  /\ sessionUnchanged

(* ------------------- imageProcessing and the canvas ------------------- *)
White == 16777215        \* '#ffffff', the default background of the composition
Gray == 15987958         \* '#f3f4f6', the background of the empty canvas
NoFrame == 0             \* rafId = null

\* Faulty variant of getDefaultTransform: small images are scaled up.
getDefaultTransformUpscales(imageWidth, imageHeight, canvasWidth, canvasHeight) ==
  [ x |-> Rat(canvasWidth, 2),
    y |-> Rat(canvasHeight, 2),
    scale |-> RatMin(Rat(canvasWidth, imageWidth), Rat(canvasHeight, imageHeight)),
    rotation |-> Num(0) ]

\* getDefaultTransform(imageWidth, imageHeight, canvasWidth, canvasHeight).
getDefaultTransform(imageWidth, imageHeight, canvasWidth, canvasHeight) ==
  LET scaleX == Rat(canvasWidth, imageWidth)
      scaleY == Rat(canvasHeight, imageHeight)
      scale == RatMin(RatMin(scaleX, scaleY), Num(1))
  IN [ x |-> Rat(canvasWidth, 2),
       y |-> Rat(canvasHeight, 2),
       scale |-> scale,
       rotation |-> Num(0) ]

\* new Canvas(element, {width, height, backgroundColor: '#f3f4f6'}). active is
\* the index of the active object in objects, 0 when there is none.
newCanvas(width, height) ==
  [ width |-> width, height |-> height, backgroundColor |-> Gray,
    backgroundImage |-> NoUrl, objects |-> <<>>, active |-> 0 ]

\* canvas.clear(): removes the objects (and the selection), the background
\* image and the background color.
clear(canvas) ==
  [canvas EXCEPT !.objects = <<>>, !.active = 0,
                 !.backgroundImage = NoUrl, !.backgroundColor = NoColor]

\* canvas.centerObject(object): the position of the object becomes the centre
\* of the canvas (left and top are the coordinates of the object's centre).
centerObject(canvas, object) ==
  [object EXCEPT !.left = Rat(canvas.width, 2), !.top = Rat(canvas.height, 2)]

\* Faulty variant of composeImage: the foreground is not re-centred.
composeImageUncentered(canvas, foreground, background, transform) ==
  LET cleared == clear(canvas)
      withBackground ==
        IF background.type = "color"
          THEN [cleared EXCEPT !.backgroundColor = background.value]
          ELSE [cleared EXCEPT !.backgroundImage = background.value]
      fgImage == [ image |-> foreground,
                   left |-> transform.x,
                   top |-> transform.y,
                   scaleX |-> transform.scale,
                   scaleY |-> transform.scale,
                   angle |-> transform.rotation ]
  IN [withBackground EXCEPT !.objects = Append(@, fgImage)]

\* composeImage(canvas, foreground, background, transform): the canvas after
\* clear, the background, canvas.add(fgImage) and canvas.centerObject(fgImage).
composeImage(canvas, foreground, background, transform) ==
  LET cleared == clear(canvas)
      withBackground ==
        IF background.type = "color"
          THEN [cleared EXCEPT !.backgroundColor = background.value]
          ELSE [cleared EXCEPT !.backgroundImage = background.value]
      fgImage == [ image |-> foreground,
                   left |-> transform.x,
                   top |-> transform.y,
                   scaleX |-> transform.scale,
                   scaleY |-> transform.scale,
                   angle |-> transform.rotation ]
  IN [withBackground EXCEPT
        !.objects = Append(@, centerObject(withBackground, fgImage))]

\* The sizes getCanvasSize gives: 800 x 600, and on a window narrower than
\* 640 px (here 375 px) innerWidth - 64 by 400.
CanvasSizes == {[width |-> 800, height |-> 600], [width |-> 311, height |-> 400]}

\* CanvasEditor before it is rendered. props holds the values the effects last
\* ran with, currentTransform the useState value (<<>> is null), call the
\* arguments of the last composeImage call, frames the callbacks passed to
\* requestAnimationFrame and not yet run or cancelled, rafId the variable of
\* the current effect closure, listening whether its handlers are attached;
\* edits counts the manipulation events and reports the onTransformChange calls.
newEditor(size) ==
  [ canvas |-> newCanvas(size.width, size.height),
    props |-> <<>>,
    currentTransform |-> <<>>,
    hasInitializedTransform |-> FALSE,
    call |-> <<>>,
    listening |-> FALSE,
    rafId |-> NoFrame,
    frames |-> {},
    edits |-> 0,
    reports |-> 0 ]

\* The editor of the sessions whose canvas is not explored.
NoEditor == newEditor([width |-> 800, height |-> 600])

(* ------------------------------ Init ---------------------------------- *)
\* The sessions explored: two uploads around one removal, one upload with a
\* removal and its retry, a session that is unmounted, a session in a
\* browser that fails the support check, a session whose result is moved,
\* scaled and downloaded, and a session that cannot load the removal module
\* (every lazy import rejects) and keeps retrying.
Scenarios ==
  { [uploads |-> MaxUploads, removals |-> MaxRemovals - 1, bgLoads |-> MaxBgLoads,
     unmounts |-> 0, supported |-> TRUE, edits |-> FALSE,
     offline |-> FALSE],
    [uploads |-> MaxUploads - 1, removals |-> MaxRemovals, bgLoads |-> MaxBgLoads,
     unmounts |-> 0, supported |-> TRUE, edits |-> FALSE,
     offline |-> FALSE],
    [uploads |-> MaxUploads - 1, removals |-> MaxRemovals - 1, bgLoads |-> MaxBgLoads,
     unmounts |-> 1, supported |-> TRUE, edits |-> FALSE,
     offline |-> FALSE],
    [uploads |-> MaxUploads - 1, removals |-> MaxRemovals - 1, bgLoads |-> 0,
     unmounts |-> 0, supported |-> FALSE, edits |-> FALSE,
     offline |-> FALSE],
    [uploads |-> MaxUploads - 1, removals |-> MaxRemovals - 1, bgLoads |-> MaxBgLoads,
     unmounts |-> 0, supported |-> TRUE, edits |-> TRUE, offline |-> FALSE],
    [uploads |-> MaxUploads, removals |-> MaxRemovals + 1, bgLoads |-> 0,
     unmounts |-> 0, supported |-> TRUE, edits |-> FALSE, offline |-> TRUE] }

\* The state after the first render; in a supported browser the checkSupport
\* effect changes nothing and is taken as done.
Init ==
  /\ state = initialState
  /\ mounted = TRUE
  /\ showConfirmDialog = FALSE
  /\ lastFailedOperationRef = NoOperation
  /\ blobUrlsRef = {}
  /\ urls = <<>>
  /\ uploads = <<>>
  /\ requests = <<>>
  /\ bgLoads = <<>>
  /\ harness = NoHarness
  /\ timers = <<>>
  /\ server = NoServer
  /\ editor = NoEditor
  /\ budget \in Scenarios
  /\ supportCheck = IF budget.supported THEN "done" ELSE "pending"

(* ------------------- checkSupport effect and unmount ------------------ *)
\* The mount effect where isBrowserSupported() is false: SET_ERROR.
checkSupport ==
  /\ supportCheck = "pending"
  /\ supportCheck' = "done"
  /\ state' = dispatch(state, SetError("Your browser does not support this application."))
  /\ UNCHANGED <<mounted, showConfirmDialog, lastFailedOperationRef,
                 blobUrlsRef, urls, uploads, requests, bgLoads, harness, budget,
                 timers, editor, server>>

RECURSIVE revokeEach(_, _)
revokeEach(us, S) ==
  IF S = {} THEN us
  ELSE LET u == CHOOSE x \in S : TRUE
       IN revokeEach(revokeObjectURL(us, u), S \ {u})

\* Cleanup of the unmount effect: revoke every tracked URL, clear the set.
\* CanvasEditor is unmounted with its parent: the cleanup of its composition
\* effect cancels the pending frame and detaches the handlers.
unmountCleanup ==
  /\ mounted
  /\ budget.unmounts > 0
  /\ mounted' = FALSE
  /\ urls' = revokeEach(urls, blobUrlsRef)
  /\ blobUrlsRef' = {}
  /\ editor' = [editor EXCEPT !.frames = @ \ {editor.rafId},
                              !.rafId = NoFrame,
                              !.listening = FALSE]
  /\ UNCHANGED state
  /\ UNCHANGED <<showConfirmDialog, lastFailedOperationRef, uploads, requests,
                 bgLoads, supportCheck, harness, budget, timers, server>>

(* --------------------------- handleImageUpload ------------------------ *)
\* dispatch RESET, createObjectURL(file), trackBlobUrl, img.src = imageUrl.
handleImageUpload ==
  /\ mounted
  /\ Len(uploads) < budget.uploads
  /\ LET a == [type |-> "RESET"]
         k == Len(uploads) + 1
         u == SourceUrl(k)
     IN /\ state' = dispatch(state, a)
        /\ urls' = createObjectURL(dispatchRevokes(urls, state, a), u, k, k)
        /\ blobUrlsRef' = trackBlobUrl(blobUrlsRef, u)
        /\ uploads' = Append(uploads, [pc |-> "decoding", outcome |-> "pending"])
  /\ UNCHANGED <<mounted, showConfirmDialog, lastFailedOperationRef, requests,
                 bgLoads, supportCheck, harness, budget, timers, editor, server>>

\* A callback of upload k that dispatches a and then calls revokeBlobUrlTracked(u).
uploadSettles(k, a, u, outcome) ==
  /\ state' = dispatch(state, a)
  /\ urls' = revokeBlobUrlTracked(dispatchRevokes(urls, state, a), blobUrlsRef, u)
  /\ blobUrlsRef' = untrack(blobUrlsRef, u)
  /\ uploads' = [uploads EXCEPT ![k] = [pc |-> "done", outcome |-> outcome]]
  /\ UNCHANGED <<mounted, showConfirmDialog, lastFailedOperationRef, requests,
                 bgLoads, supportCheck, harness, budget, timers, editor, server>>

\* img.onload with needsResize(img) false: SET_SOURCE_IMAGE with img and file.
imgOnLoad(k) ==
  /\ uploads[k].pc = "decoding"
  /\ uploadSettles(k, [type |-> "SET_SOURCE_IMAGE", image |-> SourceUrl(k),
                       file |-> OriginalFile(k)], SourceUrl(k), "applied")

\* img.onload with needsResize(img) true: suspended at await resizeImage(img).
imgOnLoadNeedsResize(k) ==
  /\ uploads[k].pc = "decoding"
  /\ uploads' = [uploads EXCEPT ![k].pc = "resizing"]
  /\ UNCHANGED state
  /\ UNCHANGED <<mounted, showConfirmDialog, lastFailedOperationRef,
                 blobUrlsRef, urls, requests, bgLoads, supportCheck, harness, budget,
                 timers, editor, server>>

\* resizeImage resolved: createObjectURL(resizedBlob), trackBlobUrl,
\* resizedImg.src = resizedUrl, then revokeBlobUrlTracked(imageUrl).
resizeResolved(k) ==
  /\ uploads[k].pc = "resizing"
  /\ LET u == ResizedUrl(k)
         us == createObjectURL(urls, u, k, generation)
     IN /\ urls' = revokeBlobUrlTracked(us, blobUrlsRef, SourceUrl(k))
        /\ blobUrlsRef' = trackBlobUrl(untrack(blobUrlsRef, SourceUrl(k)), u)
        /\ uploads' = [uploads EXCEPT ![k].pc = "redecoding"]
  /\ UNCHANGED state
  /\ UNCHANGED <<mounted, showConfirmDialog, lastFailedOperationRef, requests,
                 bgLoads, supportCheck, harness, budget, timers, editor, server>>

\* resizeImage rejected: the catch of img.onload.
resizeRejected(k) ==
  /\ uploads[k].pc = "resizing"
  /\ uploadSettles(k, SetError("Failed to optimize image. Please try a smaller file."),
                   SourceUrl(k), "error")

\* resizedImg.onload
resizedImgOnLoad(k) ==
  /\ uploads[k].pc = "redecoding"
  /\ uploadSettles(k, [type |-> "SET_SOURCE_IMAGE", image |-> ResizedUrl(k),
                       file |-> ResizedFile(k)], ResizedUrl(k), "applied")

\* resizedImg.onerror
resizedImgOnError(k) ==
  /\ uploads[k].pc = "redecoding"
  /\ uploadSettles(k, SetError("Failed to process resized image. Please try another file."),
                   ResizedUrl(k), "error")

\* img.onerror
imgOnError(k) ==
  /\ uploads[k].pc = "decoding"
  /\ uploadSettles(k, SetError("Failed to load image. Please try another file."),
                   SourceUrl(k), "error")

(* ------------------------ processRemoveBackground --------------------- *)
\* processRemoveBackground as the closure that captured sourceFile = file, up
\* to its first await (the lazy import).
processRemoveBackground(s, file) ==
  IF file = NoFile
    THEN /\ state' = dispatch(s, SetError("Please upload an image first."))
         /\ UNCHANGED <<lastFailedOperationRef, requests>>
    ELSE /\ lastFailedOperationRef' = file
         /\ state' = dispatch(dispatch(s, [type |-> "SET_PROCESSING", payload |-> TRUE]),
                              SetProgress(0))
         /\ requests' = Append(requests,
                               NewRequest("session", file, generation,
                                          DefaultMaxRetries, MaxTicksSession,
                                          "import"))

\* ToolBar button (shown with a source image, disabled while processing):
\* handleRemoveBackground opens the confirmation dialog.
handleRemoveBackground ==
  /\ mounted
  /\ state.sourceImage # NoUrl
  /\ ~state.isProcessing
  /\ IF state.sourceFile = NoFile
       THEN /\ state' = dispatch(state, SetError("Please upload an image first."))
            /\ UNCHANGED showConfirmDialog
       ELSE /\ showConfirmDialog' = TRUE
            /\ UNCHANGED state
  /\ UNCHANGED <<mounted, lastFailedOperationRef, blobUrlsRef, urls, uploads,
                 requests, bgLoads, supportCheck, harness, budget, timers, editor, server>>

\* ConfirmationDialog onConfirm: close the dialog, call the current
\* processRemoveBackground.
onConfirm ==
  /\ mounted
  /\ showConfirmDialog
  /\ Len(requests) + pendingRetries < budget.removals
  /\ showConfirmDialog' = FALSE
  /\ processRemoveBackground(state, state.sourceFile)
  /\ UNCHANGED <<mounted, blobUrlsRef, urls, uploads, bgLoads, supportCheck,
                 harness, budget, timers, editor, server>>

\* ConfirmationDialog onCancel
onCancel ==
  /\ mounted
  /\ showConfirmDialog
  /\ showConfirmDialog' = FALSE
  /\ UNCHANGED state
  /\ UNCHANGED <<mounted, lastFailedOperationRef, blobUrlsRef, urls, uploads,
                 requests, bgLoads, supportCheck, harness, budget, timers, editor, server>>

\* A step of processBackgroundRemoval on request r that leaves it as q2 (cause:
\* the failure the step ran into, or "none"), with the continuation of
\* processRemoveBackground when its call settles:
\* resolved -> createObjectURL(blob), trackBlobUrl, img.src = imageUrl;
\* rejected -> the catch, dispatch SET_ERROR.
clientStep(r, q2, cause) ==
  LET q == requests[r]
      u == ProcessedUrl(r)
      s1 == IF q.caller = "session" THEN onProgressAll(state, q2.emitted) ELSE state
  IN /\ harness' = IF q.caller = "harness" THEN observe(harness, q, q2, cause)
                   ELSE harness
     /\ IF q.caller = "session" /\ q2.result = "resolved"
          THEN /\ state' = s1
               /\ urls' = createObjectURL(urls, u, q.gen, generation)
               /\ blobUrlsRef' = trackBlobUrl(blobUrlsRef, u)
               /\ requests' = [requests EXCEPT ![r] =
                                 [settled(q2) EXCEPT !.pc = "decode", !.url = u]]
          ELSE IF q.caller = "session" /\ q2.result = "rejected"
          THEN /\ state' = dispatch(s1, SetError(removalErrorMessage(q2.rejection)))
               /\ requests' = [requests EXCEPT ![r] = settled(q2)]
               /\ UNCHANGED <<urls, blobUrlsRef>>
          ELSE /\ state' = s1
               /\ requests' = [requests EXCEPT ![r] =
                                 IF q2.pc = "settled" THEN settled(q2)
                                 ELSE [q2 EXCEPT !.emitted = <<>>]]
               /\ UNCHANGED <<urls, blobUrlsRef>>
     /\ UNCHANGED <<mounted, showConfirmDialog, lastFailedOperationRef, uploads,
                    bgLoads, supportCheck, budget, timers, editor, server>>

\* The lazy import resolved: processBackgroundRemoval is called and runs to its
\* first await.
importResolved(r) ==
  /\ requests[r].pc = "import"
  /\ ~budget.offline
  /\ clientStep(r, loopHead(requests[r]), "none")

\* The lazy import rejected: the catch of processRemoveBackground.
importRejected(r) ==
  /\ requests[r].pc = "import"
  /\ state' = dispatch(state, SetError("Failed to load module"))
  /\ requests' = [requests EXCEPT ![r].pc = "done", ![r].result = "importFailed"]
  /\ UNCHANGED <<mounted, showConfirmDialog, lastFailedOperationRef,
                 blobUrlsRef, urls, uploads, bgLoads, supportCheck, harness, budget,
                 timers, editor, server>>

\* A direct call of processBackgroundRemoval, up to its first await.
processBackgroundRemoval(r) ==
  /\ requests[r].pc = "call"
  /\ clientStep(r, loopHead(requests[r]), "none")

\* The interval set by setInterval(progressUpdater, 500) fires.
intervalFires(r, inc) ==
  /\ requests[r].interval
  /\ requests[r].ticks < requests[r].tickBudget
  /\ clientStep(r, progressUpdater(requests[r], inc), "none")

\* fetch resolved: clearInterval; ok -> onProgress(90), await response.blob();
\* not ok -> await response.json().
fetchResolved(r, ok) ==
  /\ requests[r].pc = "fetch"
  /\ clientStep(r, IF ok THEN responseOk(requests[r])
                   ELSE responseNotOk(requests[r]), "none")

\* fetch rejected: clearInterval, rethrow to the outer catch.
fetchRejected(r) ==
  /\ requests[r].pc = "fetch"
  /\ clientStep(r, attemptFailed(requests[r], "transport"), "transport")

\* response.json() of a non-ok response settled: throw new Error(error.error ||
\* ...) when it parsed, its own rejection otherwise; both reach the outer catch.
errorBodySettled(r) ==
  /\ requests[r].pc = "json"
  /\ clientStep(r, attemptFailed(requests[r], "status"), "status")

\* response.blob() resolved with a blob of the given size.
blobResolved(r, size) ==
  /\ requests[r].pc = "blob"
  /\ clientStep(r, blobReceived(requests[r], size),
                IF size = 0 THEN "empty" ELSE "none")

\* response.blob() rejected: the body could not be read.
blobRejected(r) ==
  /\ requests[r].pc = "blob"
  /\ clientStep(r, attemptFailed(requests[r], "transport"), "transport")

\* The backoff timer elapsed: back to the loop head.
backoffElapsed(r) ==
  /\ requests[r].pc = "backoff"
  /\ clientStep(r, loopHead(requests[r]), "none")

\* img.onload of the processed image.
processedOnLoad(r) ==
  /\ requests[r].pc = "decode"
  /\ LET u == requests[r].url
         a == [type |-> "SET_PROCESSED_IMAGE", image |-> u, blob |-> r]
     IN /\ state' = dispatch(state, a)
        /\ urls' = revokeBlobUrlTracked(dispatchRevokes(urls, state, a), blobUrlsRef, u)
        /\ blobUrlsRef' = untrack(blobUrlsRef, u)
  /\ lastFailedOperationRef' = NoOperation
  /\ requests' = [requests EXCEPT ![r].pc = "done"]
  /\ UNCHANGED <<mounted, showConfirmDialog, uploads, bgLoads, supportCheck,
                 harness, budget, timers, editor, server>>

\* Faulty variant of processedOnError: the handler releases the URL but
\* dispatches nothing.
processedOnErrorSilent(r) ==
  /\ requests[r].pc = "decode"
  /\ LET u == requests[r].url
     IN /\ urls' = revokeBlobUrlTracked(urls, blobUrlsRef, u)
        /\ blobUrlsRef' = untrack(blobUrlsRef, u)
  /\ requests' = [requests EXCEPT ![r].pc = "done", ![r].result = "decodeFailed"]
  /\ UNCHANGED <<state, mounted, showConfirmDialog, lastFailedOperationRef, uploads,
                 bgLoads, supportCheck, harness, budget, timers, editor, server>>

\* img.onerror of the processed image.
processedOnError(r) ==
  /\ requests[r].pc = "decode"
  /\ LET u == requests[r].url
     IN /\ state' = dispatch(state, SetError("Failed to load processed image. Please try again."))
        /\ urls' = revokeBlobUrlTracked(urls, blobUrlsRef, u)
        /\ blobUrlsRef' = untrack(blobUrlsRef, u)
  /\ requests' = [requests EXCEPT ![r].pc = "done", ![r].result = "decodeFailed"]
  /\ UNCHANGED <<mounted, showConfirmDialog, lastFailedOperationRef, uploads,
                 bgLoads, supportCheck, harness, budget, timers, editor, server>>

(* ------------------------ background selection ------------------------ *)
Colors == {1}

\* BackgroundSelector is rendered when a processed image exists.
handleColorSelect(color) ==
  /\ mounted
  /\ state.processedImage # NoUrl
  /\ LET a == [type |-> "SET_BACKGROUND_COLOR", payload |-> color]
     IN /\ state' = dispatch(state, a)
        /\ urls' = dispatchRevokes(urls, state, a)
  /\ UNCHANGED <<mounted, showConfirmDialog, lastFailedOperationRef,
                 blobUrlsRef, uploads, requests, bgLoads, supportCheck, harness, budget,
                 timers, editor, server>>

\* handleImageSelect: createObjectURL(file), trackBlobUrl, img.src = imageUrl.
handleImageSelect ==
  /\ mounted
  /\ state.processedImage # NoUrl
  /\ Len(bgLoads) < budget.bgLoads
  /\ LET u == BackgroundUrl(Len(bgLoads) + 1)
     IN /\ urls' = createObjectURL(urls, u, generation, generation)
        /\ blobUrlsRef' = trackBlobUrl(blobUrlsRef, u)
        /\ bgLoads' = Append(bgLoads, [pc |-> "decoding", url |-> u])
  /\ UNCHANGED state
  /\ UNCHANGED <<mounted, showConfirmDialog, lastFailedOperationRef, uploads,
                 requests, supportCheck, harness, budget, timers, editor, server>>

\* img.onload of the background image.
backgroundOnLoad(b) ==
  /\ bgLoads[b].pc = "decoding"
  /\ LET u == bgLoads[b].url
         a == [type |-> "SET_BACKGROUND_IMAGE", payload |-> u]
     IN /\ state' = dispatch(state, a)
        /\ urls' = revokeBlobUrlTracked(dispatchRevokes(urls, state, a), blobUrlsRef, u)
        /\ blobUrlsRef' = untrack(blobUrlsRef, u)
  /\ bgLoads' = [bgLoads EXCEPT ![b].pc = "done"]
  /\ UNCHANGED <<mounted, showConfirmDialog, lastFailedOperationRef, uploads,
                 requests, supportCheck, harness, budget, timers, editor, server>>

\* img.onerror of the background image.
backgroundOnError(b) ==
  /\ bgLoads[b].pc = "decoding"
  /\ LET u == bgLoads[b].url
     IN /\ state' = dispatch(state, SetError("Failed to load background image. Please try another file."))
        /\ urls' = revokeBlobUrlTracked(urls, blobUrlsRef, u)
        /\ blobUrlsRef' = untrack(blobUrlsRef, u)
  /\ bgLoads' = [bgLoads EXCEPT ![b].pc = "done"]
  /\ UNCHANGED <<mounted, showConfirmDialog, lastFailedOperationRef, uploads,
                 requests, supportCheck, harness, budget, timers, editor, server>>

(* ----------------------- transform and download ----------------------- *)
\* Transforms the canvas reports: the one getDefaultTransform gives an image
\* that fits the 800 x 600 canvas (centre of the canvas, scale 1, no rotation).
CanvasTransforms == {getDefaultTransform(800, 600, 800, 600)}

\* A value of the scale slider (min 0.5, max 2).
ScaleValues == {Num(2)}

\* The formats of the DownloadButton dropdown.
Formats == {"png", "jpg", "webp"}

\* CanvasEditor (rendered with a source image) calls onTransformChange with the
\* transform of the image on the canvas: dispatch UPDATE_TRANSFORM.
handleTransformChange(transform) ==
  /\ mounted
  /\ budget.edits
  /\ state.sourceImage # NoUrl
  /\ state' = dispatch(state, [type |-> "UPDATE_TRANSFORM", payload |-> transform])
  /\ UNCHANGED <<mounted, showConfirmDialog, lastFailedOperationRef, blobUrlsRef,
                 urls, uploads, requests, bgLoads, supportCheck, harness, budget,
                 timers, editor, server>>

\* ToolBar scale slider (enabled with a processed image and not processing).
handleScaleChange(scale) ==
  /\ mounted
  /\ budget.edits
  /\ state.sourceImage # NoUrl
  /\ state.processedImage # NoUrl
  /\ ~state.isProcessing
  /\ state' = dispatch(state, [type |-> "UPDATE_TRANSFORM",
                               payload |-> [scale |-> scale]])
  /\ UNCHANGED <<mounted, showConfirmDialog, lastFailedOperationRef, blobUrlsRef,
                 urls, uploads, requests, bgLoads, supportCheck, harness, budget,
                 timers, editor, server>>

\* exportCanvas(canvas, format): the bytes of canvas.toDataURL({format, ...}).
exportCanvas(canvas, format) == [canvas |-> canvas, format |-> format]

\* DownloadButton.handleDownload with the selected format: a link to the blob
\* of the state, named edited-photo-<time>.<format>, is clicked.
handleDownload(format) ==
  /\ mounted
  /\ budget.edits
  /\ state.processedImage # NoUrl
  /\ state.processedBlob # NoBlob
  /\ harness' = [harness EXCEPT !.delivered =
                   [bytes |-> [blob |-> state.processedBlob], format |-> format]]
  /\ UNCHANGED <<state, mounted, showConfirmDialog, lastFailedOperationRef,
                 blobUrlsRef, urls, uploads, requests, bgLoads, supportCheck, budget,
                 timers, editor, server>>

(* ----------------------------- CanvasEditor --------------------------- *)
MaxEdits == 2            \* manipulation events (drag, handles, keys) of a session

\* The width and height of the image elements: the first file uploaded is
\* 1600 x 1200, the later ones 400 x 300, an image that went through
\* resizeImage is 2048 x 1024, and the result of a removal has the size of
\* the file that was sent.
uploadSize(k) ==
  IF k = 1 THEN [width |-> 1600, height |-> 1200]
  ELSE [width |-> 400, height |-> 300]

resizedSize == [width |-> 2048, height |-> 1024]

fileSize(f) ==
  IF f = ResizedFile(UploadOfFile(f)) THEN resizedSize
  ELSE uploadSize(UploadOfFile(f))

imageSize(u) ==
  IF \E r \in DOMAIN requests : u = ProcessedUrl(r)
    THEN fileSize(requests[CHOOSE r \in DOMAIN requests : u = ProcessedUrl(r)].file)
  ELSE IF \E k \in DOMAIN uploads : u = ResizedUrl(k) THEN resizedSize
  ELSE uploadSize(u)

\* The props CanvasEditor is rendered with.
editorProps(s) ==
  [ sourceImage |-> s.sourceImage,
    processedImage |-> s.processedImage,
    backgroundColor |-> s.backgroundColor,
    backgroundImage |-> s.backgroundImage ]

\* CanvasEditor is rendered while the session holds a source image.
rendered == mounted /\ state.sourceImage # NoUrl

\* A render with new props is committed and its effects have not run yet; they
\* run before the next event, timer or animation frame is handled.
effectsPending == rendered /\ editor.props # <<editorProps(state)>>

\* The effects of a commit, in the order of their declaration. The cleanup of
\* the previous composition effect cancels its frame and detaches its
\* handlers. The reset effect (when sourceImage or processedImage changed)
\* clears hasInitializedTransform and queues setCurrentTransform(null). The
\* composition effect reads currentTransform from the render it belongs to,
\* composes, and on the first composition of an image queues
\* setCurrentTransform(transform) and calls onTransformChange(transform).
canvasEffects ==
  /\ effectsPending
  /\ LET props == editorProps(state)
         canvas == editor.canvas
         imageChanged ==
           \/ editor.props = <<>>
           \/ editor.props[1].sourceImage # props.sourceImage
           \/ editor.props[1].processedImage # props.processedImage
         hasInitialized ==
           IF imageChanged THEN FALSE ELSE editor.hasInitializedTransform
         imageToRender ==
           IF props.processedImage # NoUrl THEN props.processedImage
           ELSE props.sourceImage
         background ==
           IF props.backgroundColor # NoColor
             THEN [type |-> "color", value |-> props.backgroundColor]
           ELSE IF props.backgroundImage # NoUrl
             THEN [type |-> "image", value |-> props.backgroundImage]
           ELSE [type |-> "color", value |-> White]
         size == imageSize(imageToRender)
         transform ==
           IF editor.currentTransform # <<>> THEN editor.currentTransform[1]
           ELSE getDefaultTransform(size.width, size.height,
                                    canvas.width, canvas.height)
     IN /\ editor' =
             [editor EXCEPT
                !.props = <<props>>,
                !.frames = @ \ {editor.rafId},
                !.rafId = NoFrame,
                !.listening = TRUE,
                !.canvas = composeImage(canvas, imageToRender, background, transform),
                !.call = <<[foreground |-> imageToRender,
                            background |-> background,
                            transform |-> transform]>>,
                !.hasInitializedTransform = TRUE,
                !.currentTransform = IF hasInitialized THEN @ ELSE <<transform>>,
                !.reports = IF hasInitialized THEN @ ELSE @ + 1]
        /\ state' = IF hasInitialized THEN state
                    ELSE dispatch(state, [type |-> "UPDATE_TRANSFORM",
                                          payload |-> transform])
  /\ UNCHANGED <<mounted, showConfirmDialog, lastFailedOperationRef, blobUrlsRef,
                 urls, uploads, requests, bgLoads, supportCheck, harness, budget,
                 timers, server>>

\* Faulty variant of updateTransform: the pending frame is not cancelled.
updateTransformKeepsFrame(ed) ==
  [ed EXCEPT !.frames = @ \cup {ed.edits + 1},
             !.rafId = ed.edits + 1,
             !.edits = @ + 1]

\* updateTransform(), the handler of the four object events: cancel the
\* pending frame, request a new one (named after the event that requested it).
updateTransform(ed) ==
  [ed EXCEPT !.frames = (@ \ {ed.rafId}) \cup {ed.edits + 1},
             !.rafId = ed.edits + 1,
             !.edits = @ + 1]

\* The user can manipulate the foreground: the effects have run, the canvas
\* holds the foreground and the handlers are attached.
manipulable ==
  /\ rendered
  /\ ~effectsPending
  /\ editor.listening
  /\ editor.canvas.objects # <<>>
  /\ editor.edits < MaxEdits

\* A fabric event that leaves the canvas as canvas2 and calls updateTransform.
objectEvent(canvas2) ==
  /\ editor' = updateTransform([editor EXCEPT !.canvas = canvas2])
  /\ UNCHANGED <<state, mounted, showConfirmDialog, lastFailedOperationRef,
                 blobUrlsRef, urls, uploads, requests, bgLoads, supportCheck,
                 harness, budget, timers, server>>

DragPositions == {[left |-> Num(100), top |-> Num(50)]}
DragScales == {Rat(3, 2)}
DragAngles == {Num(90)}
Keys == {"ArrowLeft", "ArrowRight", "ArrowUp", "ArrowDown", "+", "-"}

\* object:moving: the foreground, selected by the mouse press, is dragged.
objectMoving(position) ==
  /\ manipulable
  /\ objectEvent([editor.canvas EXCEPT !.active = 1,
                                       !.objects[1].left = position.left,
                                       !.objects[1].top = position.top])

\* object:scaling: a corner handle is dragged (both axes together).
objectScaling(scale) ==
  /\ manipulable
  /\ objectEvent([editor.canvas EXCEPT !.active = 1,
                                       !.objects[1].scaleX = scale,
                                       !.objects[1].scaleY = scale])

\* object:rotating: the rotation handle is dragged.
objectRotating(angle) ==
  /\ manipulable
  /\ objectEvent([editor.canvas EXCEPT !.active = 1,
                                       !.objects[1].angle = angle])

\* object:modified: the mouse is released after a manipulation.
objectModified ==
  /\ manipulable
  /\ editor.canvas.active # 0
  /\ objectEvent(editor.canvas)

\* onKeyDown of the canvas element: without an active object nothing happens;
\* a handled key changes the active object and fires object:modified.
onKeyDown(key, shiftKey) ==
  /\ manipulable
  /\ editor.canvas.active # 0
  /\ LET step == IF shiftKey THEN Num(10) ELSE Num(1)
         back == IF shiftKey THEN Num(-10) ELSE Num(-1)
         o == editor.canvas.objects[editor.canvas.active]
         scaleX == IF o.scaleX = Num(0) THEN Num(1) ELSE o.scaleX
         o2 == CASE key = "ArrowLeft" -> [o EXCEPT !.left = RatAdd(@, back)]
                 [] key = "ArrowRight" -> [o EXCEPT !.left = RatAdd(@, step)]
                 [] key = "ArrowUp" -> [o EXCEPT !.top = RatAdd(@, back)]
                 [] key = "ArrowDown" -> [o EXCEPT !.top = RatAdd(@, step)]
                 [] key = "+" -> [o EXCEPT !.scaleX = RatMul(scaleX, Rat(11, 10)),
                                           !.scaleY = RatMul(scaleX, Rat(11, 10))]
                 [] key = "-" -> [o EXCEPT !.scaleX = RatMul(scaleX, Rat(9, 10)),
                                           !.scaleY = RatMul(scaleX, Rat(9, 10))]
     IN objectEvent([editor.canvas EXCEPT !.objects[editor.canvas.active] = o2])

\* The callback passed to requestAnimationFrame runs: with an active object
\* its left, top, scaleX and angle become currentTransform and are reported.
frameCallback(id) ==
  /\ id \in editor.frames
  /\ ~effectsPending
  /\ LET canvas == editor.canvas
         activeObject == canvas.active # 0
         o == canvas.objects[canvas.active]
         newTransform ==
           [ x |-> o.left,
             y |-> o.top,
             scale |-> IF o.scaleX = Num(0) THEN Num(1) ELSE o.scaleX,
             rotation |-> o.angle ]
     IN /\ editor' = [editor EXCEPT
                        !.frames = @ \ {id},
                        !.rafId = NoFrame,
                        !.currentTransform =
                           IF activeObject THEN <<newTransform>> ELSE @,
                        !.reports = IF activeObject THEN @ + 1 ELSE @]
        /\ state' = IF activeObject
                      THEN dispatch(state, [type |-> "UPDATE_TRANSFORM",
                                            payload |-> newTransform])
                    ELSE state
  /\ UNCHANGED <<mounted, showConfirmDialog, lastFailedOperationRef, blobUrlsRef,
                 urls, uploads, requests, bgLoads, supportCheck, harness, budget,
                 timers, server>>

(* --------------------- reset, retry, error dismissal ------------------ *)
\* ToolBar reset button: enabled with a processed image and not processing.
handleReset ==
  /\ mounted
  /\ state.sourceImage # NoUrl
  /\ state.processedImage # NoUrl
  /\ ~state.isProcessing
  /\ LET a == [type |-> "RESET"]
     IN /\ state' = dispatch(state, a)
        /\ urls' = dispatchRevokes(urls, state, a)
  /\ UNCHANGED <<mounted, showConfirmDialog, lastFailedOperationRef,
                 blobUrlsRef, uploads, requests, bgLoads, supportCheck, harness, budget,
                 timers, editor, server>>

\* ErrorNotification (rendered while state.error is set) dismiss button:
\* handleDismiss schedules onDismiss in 300 ms.
handleDismiss ==
  /\ mounted
  /\ state.error # NoError
  /\ Len(timers) + 1 <= MaxTimers
  /\ timers' = Append(timers, "dismiss")
  /\ UNCHANGED <<state, mounted, showConfirmDialog, lastFailedOperationRef,
                 blobUrlsRef, urls, uploads, requests, bgLoads, supportCheck,
                 harness, budget, editor, server>>

\* ErrorNotification retry button (rendered when lastFailedOperationRef.current
\* is set): handleDismiss(), then onRetry scheduled in 300 ms.
retryClicked ==
  /\ mounted
  /\ state.error # NoError
  /\ lastFailedOperationRef # NoOperation
  /\ Len(timers) + 2 <= MaxTimers
  /\ Len(requests) + pendingRetries < budget.removals
  /\ timers' = timers \o <<"dismiss", "retry">>
  /\ UNCHANGED <<state, mounted, showConfirmDialog, lastFailedOperationRef,
                 blobUrlsRef, urls, uploads, requests, bgLoads, supportCheck,
                 harness, budget, editor, server>>

\* The onDismiss timeout fires: handleDismissError dispatches SET_ERROR null.
handleDismissError ==
  /\ timers # <<>>
  /\ Head(timers) = "dismiss"
  /\ timers' = Tail(timers)
  /\ state' = dispatch(state, SetError(NoError))
  /\ UNCHANGED <<mounted, showConfirmDialog, lastFailedOperationRef,
                 blobUrlsRef, urls, uploads, requests, bgLoads, supportCheck,
                 harness, budget, editor, server>>

\* The onRetry timeout fires: handleRetry calls the closure stored in
\* lastFailedOperationRef, if any, with the sourceFile that closure captured.
handleRetry ==
  /\ timers # <<>>
  /\ Head(timers) = "retry"
  /\ timers' = Tail(timers)
  /\ IF lastFailedOperationRef # NoOperation
       THEN processRemoveBackground(state, lastFailedOperationRef)
       ELSE UNCHANGED <<state, lastFailedOperationRef, requests>>
  /\ UNCHANGED <<mounted, showConfirmDialog, blobUrlsRef, urls, uploads,
                 bgLoads, supportCheck, harness, budget, editor, server>>

(* --------------------------- specifications --------------------------- *)
Requests == DOMAIN requests
Uploads == DOMAIN uploads
BgLoads == DOMAIN bgLoads

\* The steps of a processBackgroundRemoval call after its first await.
ClientNext ==
  \/ \E r \in Requests, inc \in TickIncrements : intervalFires(r, inc)
  \/ \E r \in Requests, ok \in BOOLEAN : fetchResolved(r, ok)
  \/ \E r \in Requests : fetchRejected(r)
  \/ \E r \in Requests : errorBodySettled(r)
  \/ \E r \in Requests, size \in {0, 1} : blobResolved(r, size)
  \/ \E r \in Requests : blobRejected(r)
  \/ \E r \in Requests : backoffElapsed(r)

Next ==
  \/ checkSupport
  \/ unmountCleanup
  \/ handleImageUpload
  \/ \E k \in Uploads : imgOnLoad(k)
  \/ \E k \in Uploads : imgOnLoadNeedsResize(k)
  \/ \E k \in Uploads : resizeResolved(k)
  \/ \E k \in Uploads : resizeRejected(k)
  \/ \E k \in Uploads : resizedImgOnLoad(k)
  \/ \E k \in Uploads : resizedImgOnError(k)
  \/ \E k \in Uploads : imgOnError(k)
  \/ handleRemoveBackground
  \/ onConfirm
  \/ onCancel
  \/ \E r \in Requests : importResolved(r)
  \/ \E r \in Requests : importRejected(r)
  \/ \E r \in Requests : processedOnLoad(r)
  \/ \E r \in Requests : processedOnError(r)
  \/ ClientNext
  \/ \E c \in Colors : handleColorSelect(c)
  \/ handleImageSelect
  \/ \E b \in BgLoads : backgroundOnLoad(b)
  \/ \E b \in BgLoads : backgroundOnError(b)
  \/ \E t \in CanvasTransforms : handleTransformChange(t)
  \/ \E scale \in ScaleValues : handleScaleChange(scale)
  \/ \E f \in Formats : handleDownload(f)
  \/ handleReset
  \/ handleDismiss
  \/ retryClicked
  \/ handleDismissError
  \/ handleRetry

\* The editing session.
Spec == Init /\ [][Next]_vars

\* The sessions explored with their canvas: two uploads, one removal, the
\* color palette, the scale slider and reset, ended or not by an unmount.
CanvasScenarios ==
  { [uploads |-> MaxUploads, removals |-> MaxRemovals - 1, bgLoads |-> 0,
     unmounts |-> n, supported |-> TRUE, edits |-> TRUE, offline |-> FALSE]
      : n \in {0, 1} }

InitCanvas ==
  /\ state = initialState
  /\ mounted = TRUE
  /\ showConfirmDialog = FALSE
  /\ lastFailedOperationRef = NoOperation
  /\ blobUrlsRef = {}
  /\ urls = <<>>
  /\ uploads = <<>>
  /\ requests = <<>>
  /\ bgLoads = <<>>
  /\ supportCheck = "done"
  /\ harness = NoHarness
  /\ timers = <<>>
  /\ server = NoServer
  /\ budget \in CanvasScenarios
  /\ editor \in {newEditor(size) : size \in CanvasSizes}

\* The session and its CanvasEditor in a network that answers every request:
\* the effects of a commit run before anything else is handled.
NextCanvas ==
  \/ canvasEffects
  \/ \E position \in DragPositions : objectMoving(position)
  \/ \E scale \in DragScales : objectScaling(scale)
  \/ \E angle \in DragAngles : objectRotating(angle)
  \/ objectModified
  \/ \E key \in Keys, shiftKey \in BOOLEAN : onKeyDown(key, shiftKey)
  \/ \E id \in editor.frames : frameCallback(id)
  \/ ~effectsPending /\ unmountCleanup
  \/ ~effectsPending /\ handleImageUpload
  \/ ~effectsPending /\ \E k \in Uploads : imgOnLoad(k)
  \/ ~effectsPending /\ handleRemoveBackground
  \/ ~effectsPending /\ onConfirm
  \/ ~effectsPending /\ \E r \in Requests : importResolved(r)
  \/ ~effectsPending /\ \E r \in Requests : fetchResolved(r, TRUE)
  \/ ~effectsPending /\ \E r \in Requests : blobResolved(r, 1)
  \/ ~effectsPending /\ \E r \in Requests : processedOnLoad(r)
  \/ ~effectsPending /\ \E c \in Colors : handleColorSelect(c)
  \/ ~effectsPending /\ \E scale \in ScaleValues : handleScaleChange(scale)
  \/ ~effectsPending /\ handleReset

SpecCanvas == InitCanvas /\ [][NextCanvas]_vars

\* A session of two uploads and two removals in a network that answers every
\* request at its first attempt.
InitOverlap ==
  /\ state = initialState
  /\ mounted = TRUE
  /\ showConfirmDialog = FALSE
  /\ lastFailedOperationRef = NoOperation
  /\ blobUrlsRef = {}
  /\ urls = <<>>
  /\ uploads = <<>>
  /\ requests = <<>>
  /\ bgLoads = <<>>
  /\ supportCheck = "done"
  /\ harness = NoHarness
  /\ timers = <<>>
  /\ server = NoServer
  /\ editor = NoEditor
  /\ budget = [uploads |-> MaxUploads, removals |-> MaxRemovals, bgLoads |-> 0,
               unmounts |-> 0, supported |-> TRUE, edits |-> FALSE,
               offline |-> FALSE]

NextOverlap ==
  \/ handleImageUpload
  \/ \E k \in Uploads : imgOnLoad(k)
  \/ \E k \in Uploads : imgOnError(k)
  \/ handleRemoveBackground
  \/ onConfirm
  \/ onCancel
  \/ \E r \in Requests : importResolved(r)
  \/ \E r \in Requests, inc \in TickIncrements : intervalFires(r, inc)
  \/ \E r \in Requests : fetchResolved(r, TRUE)
  \/ \E r \in Requests : blobResolved(r, 1)
  \/ \E r \in Requests : processedOnLoad(r)
  \/ handleReset
  \/ handleDismiss
  \/ handleDismissError

SpecOverlap == InitOverlap /\ [][NextOverlap]_vars

\* The route alone: no editing session runs.
InitServer ==
  /\ state = initialState
  /\ mounted = TRUE
  /\ showConfirmDialog = FALSE
  /\ lastFailedOperationRef = NoOperation
  /\ blobUrlsRef = {}
  /\ urls = <<>>
  /\ uploads = <<>>
  /\ requests = <<>>
  /\ bgLoads = <<>>
  /\ supportCheck = "done"
  /\ harness = NoHarness
  /\ timers = <<>>
  /\ budget = [uploads |-> 0, removals |-> 0, bgLoads |-> 0, unmounts |-> 0,
               supported |-> TRUE, edits |-> FALSE, offline |-> FALSE]
  /\ editor = NoEditor
  /\ server = NoServer

NextServer ==
  \/ clockTick
  \/ \E hasFile \in BOOLEAN : POST(hasFile)
  \/ \E i \in Handlers : formDataResolved(i)
  \/ \E i \in Handlers, later \in 0..MaxClock : arrayBufferResolved(i, later)
  \/ \E i \in Handlers : pythonOpens(i)
  \/ \E i \in Handlers : pythonSaves(i)
  \/ \E i \in Handlers : execSettled(i)

\* The route under concurrent requests.
SpecServer == InitServer /\ [][NextServer]_vars

\* getDefaultTransform called directly with image and canvas dimensions drawn
\* from ImageDims and CanvasDims; editor holds the arguments and the result.
ImageDims == {1, 200, 311, 800, 2000, 4000}
CanvasDims == {[width |-> 800, height |-> 600], [width |-> 311, height |-> 400],
               [width |-> 1, height |-> 1]}

InitTransform ==
  /\ state = initialState
  /\ mounted = TRUE
  /\ showConfirmDialog = FALSE
  /\ lastFailedOperationRef = NoOperation
  /\ blobUrlsRef = {}
  /\ urls = <<>>
  /\ uploads = <<>>
  /\ requests = <<>>
  /\ bgLoads = <<>>
  /\ supportCheck = "done"
  /\ harness = NoHarness
  /\ timers = <<>>
  /\ server = NoServer
  /\ budget = [uploads |-> 0, removals |-> 0, bgLoads |-> 0, unmounts |-> 0,
               supported |-> TRUE, edits |-> FALSE, offline |-> FALSE]
  /\ \E imageWidth \in ImageDims, imageHeight \in ImageDims, size \in CanvasDims :
       editor = [ imageWidth |-> imageWidth, imageHeight |-> imageHeight,
                  canvasWidth |-> size.width, canvasHeight |-> size.height,
                  result |-> <<>> ]

callGetDefaultTransform ==
  /\ editor.result = <<>>
  /\ editor' = [editor EXCEPT !.result =
                   <<getDefaultTransform(editor.imageWidth, editor.imageHeight,
                                         editor.canvasWidth, editor.canvasHeight)>>]
  /\ UNCHANGED <<state, mounted, showConfirmDialog, lastFailedOperationRef,
                 blobUrlsRef, urls, uploads, requests, bgLoads, supportCheck,
                 harness, budget, timers, server>>

NextTransform == callGetDefaultTransform

SpecTransform == InitTransform /\ [][NextTransform]_vars

\* processBackgroundRemoval called directly with maxRetries = n and an
\* onProgress that records its argument.
InitClient ==
  /\ state = initialState
  /\ mounted = TRUE
  /\ showConfirmDialog = FALSE
  /\ lastFailedOperationRef = NoOperation
  /\ blobUrlsRef = {}
  /\ urls = <<>>
  /\ uploads = <<>>
  /\ bgLoads = <<>>
  /\ supportCheck = "done"
  /\ harness = NoHarness
  /\ timers = <<>>
  /\ server = NoServer
  /\ editor = NoEditor
  /\ budget = [uploads |-> 0, removals |-> 0, bgLoads |-> 0, unmounts |-> 0,
               supported |-> TRUE, edits |-> FALSE,
     offline |-> FALSE]
  /\ \E n \in 0..MaxRetriesBound :
       requests = <<NewRequest("harness", OriginalFile(1), 0, n, MaxTicksClient, "call")>>

NextClient ==
  \/ \E r \in Requests : processBackgroundRemoval(r)
  \/ ClientNext

SpecClient == InitClient /\ [][NextClient]_vars

\* processBackgroundRemoval called directly with a maxRetries large enough for
\* its backoff delays to reach the cap.
InitBackoff ==
  /\ state = initialState
  /\ mounted = TRUE
  /\ showConfirmDialog = FALSE
  /\ lastFailedOperationRef = NoOperation
  /\ blobUrlsRef = {}
  /\ urls = <<>>
  /\ uploads = <<>>
  /\ bgLoads = <<>>
  /\ supportCheck = "done"
  /\ harness = NoHarness
  /\ timers = <<>>
  /\ server = NoServer
  /\ editor = NoEditor
  /\ budget = [uploads |-> 0, removals |-> 0, bgLoads |-> 0, unmounts |-> 0,
               supported |-> TRUE, edits |-> FALSE,
     offline |-> FALSE]
  /\ \E n \in 1..MaxBackoffRetries :
       requests = <<NewRequest("harness", OriginalFile(1), 0, n, MaxTicksBackoff, "call")>>

SpecBackoff == InitBackoff /\ [][NextClient]_vars

(* ------------------------- fair specification ------------------------- *)
\* What the environment owes request r: the import settles, each fetch, json()
\* and blob() call returns or throws, each backoff timer elapses and the decode
\* of the result fires load or error. The interval may fire or not.
requestSettles(r) ==
  /\ r \in Requests
  /\ \/ importResolved(r)
     \/ importRejected(r)
     \/ \E ok \in BOOLEAN : fetchResolved(r, ok)
     \/ fetchRejected(r)
     \/ errorBodySettled(r)
     \/ \E size \in {0, 1} : blobResolved(r, size)
     \/ blobRejected(r)
     \/ backoffElapsed(r)
     \/ processedOnLoad(r)
     \/ processedOnError(r)

FairSpec == Spec /\ \A r \in 1..MaxRemovals : WF_vars(requestSettles(r))

(* ------------------------------ claims -------------------------------- *)
SessionRequests == {r \in Requests : requests[r].caller = "session"}
HarnessRequests == {r \in Requests : requests[r].caller = "harness"}

\* Request r resolved after a source upload that followed its start.
resolvedStale(r) ==
  /\ ProcessedUrl(r) \in DOMAIN urls
  /\ urls[ProcessedUrl(r)].createdAt > urls[ProcessedUrl(r)].gen

\* C1: a removal that resolves after a newer source upload is discarded: no
\* blob URL is created or tracked for its result and the processed image and
\* blob are never set from it.
C1_StaleRemovalDiscarded ==
  \A r \in SessionRequests :
    /\ ~resolvedStale(r)
    /\ (state.processedBlob = r => urls[ProcessedUrl(r)].createdAt = requests[r].gen)

\* A step of the client of a session request: the only steps that call onProgress.
progressStep ==
  \E r \in SessionRequests :
    /\ requests[r].pc \in {"import", "fetch", "blob", "backoff"}
    /\ requests'[r] # requests[r]

\* C2: while the session is processing, a step that reports progress never
\* lowers the progress held by the state machine.
C2_ProgressNeverDecreases ==
  [][(progressStep /\ state.isProcessing /\ state'.isProcessing)
       => state'.processingProgress >= state.processingProgress]_vars

uploadsDone == \A k \in Uploads : uploads[k].pc = "done"

\* C3: once every pending decode has completed, the session source is the one
\* of the most recent upload (when its decode succeeded): completions of
\* earlier uploads are stale and are not applied.
C3_StaleDecodeNotApplied ==
  (generation >= 2 /\ uploadsDone /\ uploads[generation].outcome = "applied")
    => /\ UploadOfFile(state.sourceFile) = generation
       /\ state.sourceImage \in {SourceUrl(generation), ResizedUrl(generation)}

\* C4: right after each handleImageUpload call the tracker holds only URLs
\* created for that upload.
C4_TrackerHoldsCurrentGeneration ==
  [][generation' > generation
       => \A u \in blobUrlsRef' : urls'[u].gen = generation']_vars

\* C5: no blob URL is revoked more than once.
C5_RevokedAtMostOnce ==
  \A u \in DOMAIN urls : urls[u].revoked <= 1

\* C6: when every attempt fails, a call with maxRetries = n >= 1 has made
\* exactly n fetch calls and n - 1 waits, each wait between 1000 and 5000 ms;
\* while it runs, a wait has followed every failed attempt but the current one.
C6_RetryBudget ==
  \A r \in HarnessRequests :
    LET q == requests[r] IN
    /\ (q.result = "rejected" /\ q.maxRetries >= 1)
         => /\ q.calls = q.maxRetries
            /\ Len(q.delays) = q.maxRetries - 1
    /\ q.pc \in {"fetch", "json", "blob"} => Len(q.delays) = q.calls - 1
    /\ q.pc = "backoff" => Len(q.delays) = q.calls /\ q.calls < q.maxRetries
    /\ \A i \in DOMAIN q.delays : q.delays[i] >= 1000 /\ q.delays[i] <= 5000

C6_Witness ==
  \E r \in HarnessRequests :
    /\ requests[r].result = "rejected"
    /\ requests[r].maxRetries = 2
    /\ requests[r].calls = 2
    /\ requests[r].delays = <<1000>>

\* C7: a rejection is a BackgroundRemovalError with retryable = true whose
\* originalError is the cause of the last failed attempt.
C7_RejectsWithLastCause ==
  \A r \in HarnessRequests :
    LET q == requests[r] IN
    q.result = "rejected"
      => /\ q.rejection.name = "BackgroundRemovalError"
         /\ q.rejection.retryable
         /\ q.calls >= 1
              => /\ harness.failures # <<>>
                 /\ q.rejection.originalError = harness.failures[Len(harness.failures)]
                 /\ q.rejection.originalError.attempt = q.maxRetries

C7_Witness ==
  \E r \in HarnessRequests :
    /\ requests[r].result = "rejected"
    /\ Len(harness.failures) >= 2
    /\ harness.failures[1].kind # harness.failures[Len(harness.failures)].kind

\* C8: a thrown transport call, a non-success status and an empty body each
\* count as a failed attempt: the call then waits and retries, or rejects when
\* no attempt is left, and an empty body is never returned.
C8_FailuresAreRetried ==
  \A r \in HarnessRequests :
    LET q == requests[r] IN
    /\ q.result = "resolved" => q.blobSize > 0 /\ Len(harness.failures) = q.calls - 1
    /\ q.pc \in {"fetch", "json", "blob"} => Len(harness.failures) = q.calls - 1
    /\ q.pc = "backoff" => Len(harness.failures) = q.calls /\ q.calls < q.maxRetries
    /\ q.result = "rejected" => Len(harness.failures) = q.calls /\ q.calls = q.maxRetries

C8_Witness ==
  \E r \in HarnessRequests :
    /\ requests[r].result = "resolved"
    /\ {harness.failures[i].kind : i \in DOMAIN harness.failures} = {"status", "empty"}

\* A removal the session started and that has not settled yet.
removalProcessing(r) == r \in SessionRequests /\ requests[r].pc # "done"

\* The removal has ended: the session, while mounted, is not processing and
\* holds the processed image or an error.
removalEnded(r) ==
  /\ r \in SessionRequests
  /\ requests[r].pc = "done"
  /\ requests[r].result \in {"resolved", "rejected", "importFailed", "decodeFailed"}
  /\ mounted => /\ ~state.isProcessing
                /\ state.processedImage # NoUrl \/ state.error # NoError

\* C9: provided each pending import, transport call, body read, backoff timer
\* and image decode eventually settles, every removal the session started
\* eventually ends with isProcessing = false and the processed image or the
\* session error set.
C9_RemovalEventuallyEnds ==
  \A r \in 1..MaxRemovals : removalProcessing(r) ~> removalEnded(r)

\* Both attempts of a removal failed and the session shows the error.
C9_Witness ==
  \E r \in SessionRequests :
    /\ requests[r].pc = "done"
    /\ requests[r].result = "rejected"
    /\ requests[r].calls = DefaultMaxRetries
    /\ mounted
    /\ ~state.isProcessing
    /\ state.error # NoError

\* C10: the onProgress values of one attempt are 5, 15, then periodic values
\* that never decrease and stay within 85, then 90, then 100; 100 comes only
\* from the attempt that returns a result and is last; the interval is cleared
\* once the response arrived or the attempt failed.
C10_ProgressOrder ==
  \A r \in HarnessRequests :
    LET q == requests[r]
        p == harness.progress
        n == Len(p)
        periodic(i) == i >= 3 /\ p[i] \notin {90, 100}
    IN /\ q.calls = 0 => p = <<>>
       /\ q.calls >= 1 => n >= 2 /\ p[1] = 5 /\ p[2] = 15
       /\ \A i \in 3..n :
            /\ periodic(i) => p[i - 1] >= 15 /\ p[i - 1] <= p[i] /\ p[i] <= 85
            /\ p[i] = 90 => p[i - 1] >= 15 /\ p[i - 1] <= 85
            /\ p[i] = 100 => p[i - 1] = 90 /\ i = n
       /\ (n >= 1 /\ p[n] = 100) <=> q.result = "resolved"
       /\ q.pc = "blob" => p[n] = 90
       /\ q.pc \in {"fetch", "json"} => \A i \in 1..n : p[i] # 90
       /\ q.pc # "fetch" => ~q.interval

\* The second attempt has ticked past the cap: its last tick reported nothing.
C10_Witness ==
  \E r \in HarnessRequests :
    /\ requests[r].pc = "fetch"
    /\ requests[r].attempt = 2
    /\ requests[r].currentProgress >= ProgressCap
    /\ harness.progress = <<5, 15, 29, 43, 57, 71>>

\* C11: the wait after failed attempt k is min(1000 * 2^(k-1), 5000) ms: 1000,
\* 2000, 4000, then 5000 for every later attempt; a call that is waiting has
\* waited once per failed attempt.
C11_BackoffSchedule ==
  \A r \in HarnessRequests :
    LET q == requests[r] IN
    /\ \A k \in DOMAIN q.delays :
         q.delays[k] = IF k = 1 THEN 1000
                       ELSE IF k = 2 THEN 2000
                       ELSE IF k = 3 THEN 4000
                       ELSE 5000
    /\ q.pc = "backoff" => Len(q.delays) = q.attempt /\ q.attempt < q.maxRetries

\* Five failed attempts of a call with maxRetries = 6: the cap applied twice.
C11_Witness ==
  \E r \in HarnessRequests :
    /\ requests[r].pc = "backoff"
    /\ requests[r].delays = <<1000, 2000, 4000, 5000, 5000>>

\* A call of processRemoveBackground passes its sourceFile test and starts.
removalStarts == Len(requests') > Len(requests)

\* C12: a removal starts only in a mounted session that holds a source and is
\* not processing, and leaves it processing with progress 0 and no error;
\* without a source no removal starts.
C12_RemovalPrecondition ==
  [][(mounted /\ removalStarts)
       => /\ state.sourceFile # NoFile
          /\ state.sourceImage # NoUrl
          /\ ~state.isProcessing
          /\ state'.isProcessing
          /\ state'.processingProgress = 0
          /\ state'.error = NoError]_vars

Reset == [type |-> "RESET"]

\* revokeObjectURL calls made on URL u so far in registry us.
revokedCount(us, u) == IF u \in DOMAIN us THEN us[u].revoked ELSE 0

\* C13: RESET applied to any reachable state keeps the source image and file,
\* revokes the URLs of the processed image and of the background image, and
\* leaves every other field at its default.
C13_ResetYieldsSourceReady ==
  LET s2 == editorReducer(state, Reset)
      us2 == reducerRevokes(urls, state, Reset)
  IN /\ s2.sourceImage = state.sourceImage
     /\ s2.sourceFile = state.sourceFile
     /\ s2.processedImage = NoUrl
     /\ s2.processedBlob = NoBlob
     /\ s2.backgroundColor = NoColor
     /\ s2.backgroundImage = NoUrl
     /\ s2.transform = [x |-> Num(0), y |-> Num(0), scale |-> Num(1),
                        rotation |-> Num(0)]
     /\ ~s2.isProcessing
     /\ s2.processingProgress = 0
     /\ s2.error = NoError
     /\ state.processedImage # NoUrl
          => revokedCount(us2, state.processedImage)
               > revokedCount(urls, state.processedImage)
     /\ state.backgroundImage # NoUrl
          => revokedCount(us2, state.backgroundImage)
               > revokedCount(urls, state.backgroundImage)
     /\ state.sourceImage # NoUrl
          => revokedCount(us2, state.sourceImage)
               = revokedCount(urls, state.sourceImage)

\* A session with a processed image, a background image and a changed
\* transform, in which RESET has something to clear and two URLs to revoke.
C13_Witness ==
  /\ mounted
  /\ state.sourceImage # NoUrl
  /\ state.processedImage # NoUrl
  /\ state.backgroundImage # NoUrl
  /\ state.transform = [getDefaultTransform(800, 600, 800, 600)
                         EXCEPT !.scale = Num(2)]
  /\ ~state.isProcessing

\* C14: RESET is idempotent on every reachable state: a second RESET changes
\* no field, keeps the source and revokes no URL.
C14_ResetIdempotent ==
  LET s1 == editorReducer(state, Reset)
      us1 == reducerRevokes(urls, state, Reset)
      s2 == editorReducer(s1, Reset)
      us2 == reducerRevokes(us1, s1, Reset)
  IN /\ \A f \in DOMAIN s1 : s2[f] = s1[f]
     /\ DOMAIN s2 = DOMAIN s1
     /\ s2.sourceImage = state.sourceImage
     /\ s2.sourceFile = state.sourceFile
     /\ us2 = us1

\* The session after handleReset cleared a processed image: the next RESET
\* (of the next upload) is the second in a row.
C14_Witness ==
  /\ mounted
  /\ budget.edits
  /\ state.sourceImage # NoUrl
  /\ state.processedImage = NoUrl
  /\ \E r \in Requests :
       /\ requests[r].pc = "done"
       /\ requests[r].result = "resolved"
       /\ urls[ProcessedUrl(r)].revoked >= 2

\* C15: at most one of backgroundColor and backgroundImage is set; from any
\* reachable state SET_BACKGROUND_COLOR clears the background image and revokes
\* its URL, and SET_BACKGROUND_IMAGE clears the background color.
C15_OneBackground ==
  /\ state.backgroundColor = NoColor \/ state.backgroundImage = NoUrl
  /\ \A c \in Colors :
       LET a == [type |-> "SET_BACKGROUND_COLOR", payload |-> c]
           s2 == editorReducer(state, a)
       IN /\ s2.backgroundColor = c
          /\ s2.backgroundImage = NoUrl
          /\ state.backgroundImage # NoUrl
               => revokedCount(reducerRevokes(urls, state, a), state.backgroundImage)
                    > revokedCount(urls, state.backgroundImage)
  /\ \A b \in 1..MaxBgLoads :
       LET a == [type |-> "SET_BACKGROUND_IMAGE", payload |-> BackgroundUrl(b)]
           s2 == editorReducer(state, a)
       IN /\ s2.backgroundImage = BackgroundUrl(b)
          /\ s2.backgroundColor = NoColor

\* A color was selected over a loaded background image: the image is gone and
\* its URL was revoked by the reducer.
C15_Witness ==
  /\ state.backgroundColor # NoColor
  /\ state.backgroundImage = NoUrl
  /\ \E b \in BgLoads :
       /\ bgLoads[b].pc = "done"
       /\ urls[BackgroundUrl(b)].revoked >= 2

\* C16: a background color or image is set only while a processed image is
\* present.
C16_BackgroundNeedsProcessed ==
  (state.backgroundColor # NoColor \/ state.backgroundImage # NoUrl)
    => state.processedImage # NoUrl

\* The decode of upload k succeeds in this step and SET_SOURCE_IMAGE is applied.
decodeApplied(k) ==
  /\ k \in Uploads
  /\ uploads[k].outcome # "applied"
  /\ uploads'[k].outcome = "applied"

\* C17: when the decode of an upload succeeds, the session holds the image and
\* file of that upload and every other field is at its default.
C17_UploadResetsSession ==
  [][\A k \in 1..MaxUploads :
       (mounted /\ decodeApplied(k))
         => /\ state'.sourceImage \in {SourceUrl(k), ResizedUrl(k)}
            /\ UploadOfFile(state'.sourceFile) = k
            /\ state' = [initialState EXCEPT !.sourceImage = state'.sourceImage,
                                             !.sourceFile = state'.sourceFile]]_vars

\* The onDismiss timeout of ErrorNotification fires in this step.
dismissFires ==
  /\ timers # <<>>
  /\ Head(timers) = "dismiss"
  /\ timers' = Tail(timers)

\* C18: handleDismissError sets error to null and changes no other field.
C18_DismissChangesOnlyError ==
  [][(mounted /\ dismissFires)
       => /\ state'.error = NoError
          /\ \A f \in DOMAIN state \ {"error"} : state'[f] = state[f]]_vars

\* The errors a failed background removal leaves in the session.
RemovalErrors ==
  { "Failed to remove background after attempts",
    "Failed to remove background. Please try again.",
    "Failed to load module",
    "Failed to load processed image. Please try again." }

\* ErrorNotification shows the error with a retry button.
retryOffered ==
  /\ mounted
  /\ state.error # NoError
  /\ lastFailedOperationRef # NoOperation

\* The onRetry timeout of ErrorNotification fires in this step.
retryFires ==
  /\ timers # <<>>
  /\ Head(timers) = "retry"
  /\ timers' = Tail(timers)

\* C19: a retry is offered only with the error of a failed removal of the
\* current source file, and a retry that starts a removal runs it on the
\* current source file.
C19_RetryBoundToFailedOperation ==
  [][/\ retryOffered'
          => /\ state'.error \in RemovalErrors
             /\ lastFailedOperationRef' = state'.sourceFile
     /\ (mounted /\ retryFires /\ removalStarts)
          => requests'[Len(requests')].file = state.sourceFile]_vars

\* The composition of session s on the canvas: the processed image (else the
\* source), the color, else the background image, else white, and the
\* transform of the session.
composedSurface(s) ==
  composeImage(editor.canvas,
               IF s.processedImage # NoUrl THEN s.processedImage ELSE s.sourceImage,
               IF s.backgroundColor # NoColor
                 THEN [type |-> "color", value |-> s.backgroundColor]
               ELSE IF s.backgroundImage # NoUrl
                 THEN [type |-> "image", value |-> s.backgroundImage]
               ELSE [type |-> "color", value |-> White],
               s.transform)

\* C20: a download delivers the composed surface (processed foreground,
\* selected background, current transform) encoded in the selected format.
C20_DownloadDeliversComposedSurface ==
  [][harness'.delivered # harness.delivered
       => harness'.delivered.bytes
            = exportCanvas(composedSurface(state), harness'.delivered.format)]_vars

\* The capability check has run and found a required platform feature missing.
capabilityMissing == ~budget.supported /\ supportCheck = "done"

\* C21: once the capability error has been surfaced, removal requests are
\* refused: no call of processRemoveBackground starts a removal, while uploads
\* stay available.
C21_CapabilityBlocksRemoval ==
  [][capabilityMissing => ~removalStarts]_vars

\* The foreground on the canvas has the position, scale and rotation of the
\* session's transform.
previewShowsTransform ==
  /\ editor.canvas.objects # <<>>
  /\ LET fgImage == editor.canvas.objects[1]
     IN /\ fgImage.left = state.transform.x
        /\ fgImage.top = state.transform.y
        /\ fgImage.scaleX = state.transform.scale
        /\ fgImage.angle = state.transform.rotation

\* An adjustment reaches the session: the frame requested by a drag, a handle
\* or a key reports, or the scale slider of the toolbar is moved.
adjustment ==
  \/ \E id \in editor.frames : frameCallback(id)
  \/ \E scale \in ScaleValues : handleScaleChange(scale)

\* C22: every adjustment is shown in the preview: after a drag, a keyboard
\* edit or a scale-slider change has reached the session, the foreground on
\* the canvas has the position, scale and rotation of the session's transform.
C22_PreviewShowsTransform ==
  [][(rendered /\ adjustment) => previewShowsTransform']_vars

\* C23: every composeImage call leaves the foreground at the centre of the
\* canvas, whatever x and y the transform passed to it holds, with the scale
\* and the rotation of that transform.
C23_ComposeRecenters ==
  [][canvasEffects =>
       LET canvas == editor'.canvas
           fgImage == canvas.objects[Len(canvas.objects)]
           transform == editor'.call[1].transform
       IN /\ fgImage.left = Rat(canvas.width, 2)
          /\ fgImage.top = Rat(canvas.height, 2)
          /\ fgImage.scaleX = transform.scale
          /\ fgImage.scaleY = transform.scale
          /\ fgImage.angle = transform.rotation]_vars

\* The foreground was dragged away from the centre, then a background color
\* was chosen: the canvas is recomposed with the dragged transform and shows
\* the foreground at its centre.
C23_Witness ==
  /\ ~effectsPending
  /\ editor.call # <<>>
  /\ editor.call[1].background.value \in Colors
  /\ editor.call[1].transform.x = Num(100)
  /\ editor.call[1].transform.y = Num(50)
  /\ editor.canvas.objects # <<>>
  /\ editor.canvas.objects[1].left = Rat(editor.canvas.width, 2)
  /\ editor.canvas.objects[1].top = Rat(editor.canvas.height, 2)

\* C24: transform reports are throttled to one per frame: at most one frame
\* callback is pending at any time; a manipulation event leaves exactly its
\* own, newly requested, callback pending; a frame callback makes at most one
\* onTransformChange call; after the cleanup of the composition effect (a
\* recomposition or the unmount) no callback is pending.
C24_OneReportPerFrame ==
  [][/\ Cardinality(editor'.frames) <= 1
     /\ editor'.edits > editor.edits
          => /\ editor'.rafId \notin editor.frames
             /\ editor'.frames = {editor'.rafId}
     /\ (\E id \in editor.frames : frameCallback(id))
          => editor'.reports <= editor.reports + 1
     /\ (canvasEffects \/ unmountCleanup)
          => /\ editor'.frames = {}
             /\ editor'.rafId = NoFrame]_vars

\* A second manipulation event arrived before the frame requested by the first
\* one ran: only the callback of the second is pending and nothing was
\* reported since the first composition.
C24_Witness ==
  /\ editor.edits = 2
  /\ editor.frames = {2}
  /\ editor.rafId = 2
  /\ editor.reports = 1

\* C25: getDefaultTransform returns the largest scale that is at most 1 and
\* makes the image fit the canvas (the smallest of canvasW / imgW,
\* canvasH / imgH and 1), the centre of the canvas as position and rotation 0;
\* for (4000, 2000, 800, 600) the scale is 0.2 and the position (400, 300).
C25_DefaultTransform ==
  editor.result # <<>> =>
    LET t == editor.result[1]
        fitsWidth == RatLeq(RatMul(t.scale, Num(editor.imageWidth)),
                            Num(editor.canvasWidth))
        fitsHeight == RatLeq(RatMul(t.scale, Num(editor.imageHeight)),
                             Num(editor.canvasHeight))
    IN /\ RatLeq(t.scale, Num(1))
       /\ fitsWidth
       /\ fitsHeight
       /\ \/ t.scale = Num(1)
          \/ RatMul(t.scale, Num(editor.imageWidth)) = Num(editor.canvasWidth)
          \/ RatMul(t.scale, Num(editor.imageHeight)) = Num(editor.canvasHeight)
       /\ RatAdd(t.x, t.x) = Num(editor.canvasWidth)
       /\ RatAdd(t.y, t.y) = Num(editor.canvasHeight)
       /\ t.rotation = Num(0)
       /\ ( /\ editor.imageWidth = 4000 /\ editor.imageHeight = 2000
            /\ editor.canvasWidth = 800 /\ editor.canvasHeight = 600 )
            => /\ t.scale = [num |-> 1, den |-> 5]
               /\ t.x = [num |-> 400, den |-> 1]
               /\ t.y = [num |-> 300, den |-> 1]

\* getDefaultTransform(4000, 2000, 800, 600) has returned.
C25_Witness ==
  /\ editor.result # <<>>
  /\ editor.imageWidth = 4000 /\ editor.imageHeight = 2000
  /\ editor.canvasWidth = 800 /\ editor.canvasHeight = 600
  /\ editor.result[1].scale = [num |-> 1, den |-> 5]

\* The image CanvasEditor shows with props p: processedImage || sourceImage.
imageToRender(p) ==
  IF p.processedImage # NoUrl THEN p.processedImage ELSE p.sourceImage

\* The effects run for a render that shows another image than the last one.
imageChanges ==
  /\ canvasEffects
  /\ \/ editor.props = <<>>
     \/ imageToRender(editor.props[1]) # imageToRender(editorProps(state))

\* C26: when the image shown changes, the composition that follows uses the
\* default transform of the new image, and that transform is reported to the
\* session once.
C26_ImageChangeResetsTransform ==
  [][imageChanges =>
       LET size == imageSize(imageToRender(editorProps(state)))
           default == getDefaultTransform(size.width, size.height,
                                          editor.canvas.width, editor.canvas.height)
       IN /\ editor'.call[1].transform = default
          /\ editor'.currentTransform = <<default>>
          /\ editor'.reports = editor.reports + 1
          /\ state'.transform = default]_vars

\* The processBackgroundRemoval call of request r has started and has neither
\* resolved nor rejected: it awaits its transport call, a response body or a
\* backoff delay.
inFlight(r) == requests[r].pc \in {"fetch", "json", "blob", "backoff"}

\* C27: at most one background-removal request of the session is in flight at
\* any time.
C27_OneRemovalInFlight ==
  Cardinality({r \in SessionRequests : inFlight(r)}) <= 1

\* C28: in every reachable session state, isProcessing = true implies
\* error = null.
C28_ProcessingShowsNoError ==
  state.isProcessing => state.error = NoError

\* A removal failed and showed its error, and the session is processing again
\* without an error.
C28_Witness ==
  /\ state.isProcessing
  /\ state.error = NoError
  /\ \E r \in SessionRequests :
       /\ requests[r].pc = "done"
       /\ requests[r].result \in {"rejected", "importFailed", "decodeFailed"}

\* C29: in every reachable session state, isProcessing = false implies
\* processingProgress = 0.
C29_IdleProgressIsZero ==
  ~state.isProcessing => state.processingProgress = 0

\* The request of handler i holds temporary files: from the write of its
\* input to its cleanup.
holdsFiles(i) == server.handlers[i].pc \in {"exec", "python", "exited"}

\* C30: concurrent requests never share temporary files: two requests that
\* hold temporary files have no path in common, and a request answered with
\* status 200 returns the cutout of its own image.
C30_TempFilesNotShared ==
  /\ \A i \in Handlers, j \in Handlers :
       (i # j /\ holdsFiles(i) /\ holdsFiles(j))
         => {server.handlers[i].inputPath, server.handlers[i].outputPath}
              \cap {server.handlers[j].inputPath, server.handlers[j].outputPath}
              = {}
  /\ \A i \in Handlers :
       server.handlers[i].status = 200
         => server.handlers[i].resultBuffer
              = [kind |-> "cutout", of |-> server.handlers[i].file.of]

====
